---- MODULE Spec2Model ----
(***************************************************************************)
(* Model of the RAK product recommender: the hard-constraint matcher       *)
(* (recommender_system/hard_matcher.py), the soft matcher                  *)
(* (recommender_system/soft_matcher.py), the data loader's normalisation   *)
(* (recommender_system/data_loader.py) and the ranking pipeline            *)
(* ProductRecommender.recommend (recommender_system/recommender.py).       *)
(*                                                                         *)
(* Representation.  A Python str is a sequence of one-character strings,   *)
(* so that lower(), upper(), split(), strip(), the substring test `in'     *)
(* and the regular expression \bkw\b are computed character by character.  *)
(* A dict is a function whose DOMAIN is the set of keys that are present.  *)
(* A formatted message (f-string) is the tuple of its literal pieces and   *)
(* its interpolated values.  Scores are integers in units of 10^-5.        *)
(***************************************************************************)
EXTENDS Integers, Sequences, FiniteSets, TLC

(***************************************************************************)
(* Bounds of the model.                                                    *)
(***************************************************************************)
MaxCatalog == 2
HashSeeds == 2
MaxWide == 6

(***************************************************************************)
(* Characters: code points, case mapping, word characters.                 *)
(***************************************************************************)
CharCode ==
    (" " :> 32)
    @@ ("'" :> 39)
    @@ ("(" :> 40)
    @@ (")" :> 41)
    @@ ("," :> 44)
    @@ ("-" :> 45)
    @@ ("." :> 46)
    @@ ("/" :> 47)
    @@ ("0" :> 48)
    @@ ("1" :> 49)
    @@ ("2" :> 50)
    @@ ("3" :> 51)
    @@ ("4" :> 52)
    @@ ("5" :> 53)
    @@ ("6" :> 54)
    @@ ("7" :> 55)
    @@ ("8" :> 56)
    @@ ("9" :> 57)
    @@ ("A" :> 65)
    @@ ("B" :> 66)
    @@ ("C" :> 67)
    @@ ("D" :> 68)
    @@ ("E" :> 69)
    @@ ("F" :> 70)
    @@ ("G" :> 71)
    @@ ("H" :> 72)
    @@ ("I" :> 73)
    @@ ("J" :> 74)
    @@ ("K" :> 75)
    @@ ("L" :> 76)
    @@ ("M" :> 77)
    @@ ("N" :> 78)
    @@ ("O" :> 79)
    @@ ("P" :> 80)
    @@ ("Q" :> 81)
    @@ ("R" :> 82)
    @@ ("S" :> 83)
    @@ ("T" :> 84)
    @@ ("U" :> 85)
    @@ ("V" :> 86)
    @@ ("W" :> 87)
    @@ ("X" :> 88)
    @@ ("Y" :> 89)
    @@ ("Z" :> 90)
    @@ ("_" :> 95)
    @@ ("a" :> 97)
    @@ ("b" :> 98)
    @@ ("c" :> 99)
    @@ ("d" :> 100)
    @@ ("e" :> 101)
    @@ ("f" :> 102)
    @@ ("g" :> 103)
    @@ ("h" :> 104)
    @@ ("i" :> 105)
    @@ ("j" :> 106)
    @@ ("k" :> 107)
    @@ ("l" :> 108)
    @@ ("m" :> 109)
    @@ ("n" :> 110)
    @@ ("o" :> 111)
    @@ ("p" :> 112)
    @@ ("q" :> 113)
    @@ ("r" :> 114)
    @@ ("s" :> 115)
    @@ ("t" :> 116)
    @@ ("u" :> 117)
    @@ ("v" :> 118)
    @@ ("w" :> 119)
    @@ ("x" :> 120)
    @@ ("y" :> 121)
    @@ ("z" :> 122)
    @@ ("^2" :> 178)

LowerOf ==
    ("A" :> "a")
    @@ ("B" :> "b")
    @@ ("C" :> "c")
    @@ ("D" :> "d")
    @@ ("E" :> "e")
    @@ ("F" :> "f")
    @@ ("G" :> "g")
    @@ ("H" :> "h")
    @@ ("I" :> "i")
    @@ ("J" :> "j")
    @@ ("K" :> "k")
    @@ ("L" :> "l")
    @@ ("M" :> "m")
    @@ ("N" :> "n")
    @@ ("O" :> "o")
    @@ ("P" :> "p")
    @@ ("Q" :> "q")
    @@ ("R" :> "r")
    @@ ("S" :> "s")
    @@ ("T" :> "t")
    @@ ("U" :> "u")
    @@ ("V" :> "v")
    @@ ("W" :> "w")
    @@ ("X" :> "x")
    @@ ("Y" :> "y")
    @@ ("Z" :> "z")

UpperOf ==
    ("a" :> "A")
    @@ ("b" :> "B")
    @@ ("c" :> "C")
    @@ ("d" :> "D")
    @@ ("e" :> "E")
    @@ ("f" :> "F")
    @@ ("g" :> "G")
    @@ ("h" :> "H")
    @@ ("i" :> "I")
    @@ ("j" :> "J")
    @@ ("k" :> "K")
    @@ ("l" :> "L")
    @@ ("m" :> "M")
    @@ ("n" :> "N")
    @@ ("o" :> "O")
    @@ ("p" :> "P")
    @@ ("q" :> "Q")
    @@ ("r" :> "R")
    @@ ("s" :> "S")
    @@ ("t" :> "T")
    @@ ("u" :> "U")
    @@ ("v" :> "V")
    @@ ("w" :> "W")
    @@ ("x" :> "X")
    @@ ("y" :> "Y")
    @@ ("z" :> "Z")

None == "None"

Range(s) == {s[i] : i \in 1..Len(s)}

lowerChar(c) == IF c \in DOMAIN LowerOf THEN LowerOf[c] ELSE c

upperChar(c) == IF c \in DOMAIN UpperOf THEN UpperOf[c] ELSE c

\* str.lower()
lower(s) == [i \in 1..Len(s) |-> lowerChar(s[i])]

\* str.upper()
upper(s) == [i \in 1..Len(s) |-> upperChar(s[i])]

\* str.capitalize(): first character upper-cased, the rest lower-cased
capitalize(s) == [i \in 1..Len(s) |-> IF i = 1 THEN upperChar(s[i]) ELSE lowerChar(s[i])]

\* the characters the regular expression class \w matches
IsWordChar(c) == c = "_" \/ c = "^2" \/ (c \in DOMAIN CharCode /\
                  (   (CharCode[c] >= 48 /\ CharCode[c] <= 57)
                   \/ (CharCode[c] >= 65 /\ CharCode[c] <= 90)
                   \/ (CharCode[c] >= 97 /\ CharCode[c] <= 122)))

IsSpace(c) == c = " "

\* kw occurs in text at position i
OccursAt(kw, text, i) == i + Len(kw) - 1 <= Len(text) /\ SubSeq(text, i, i + Len(kw) - 1) = kw

\* Python `kw in text' for two strings
Contains(text, kw) == \E i \in 1..(Len(text) + 1) : OccursAt(kw, text, i)

\* Python `x in list'
InList(x, list) == \E i \in 1..Len(list) : list[i] = x

\* the regular expression assertion \b between text[i-1] and text[i]
WordBoundary(text, i) ==
    LET before == i > 1 /\ IsWordChar(text[i - 1])
        after  == i <= Len(text) /\ IsWordChar(text[i])
    IN  before # after

\* re.search(r'\b' + re.escape(kw) + r'\b', text) is not None
ReSearchWord(kw, text) ==
    \E i \in 1..(Len(text) + 1) :
        OccursAt(kw, text, i) /\ WordBoundary(text, i) /\ WordBoundary(text, i + Len(kw))

\* str.strip()
RECURSIVE lstrip(_)
lstrip(s) == IF s # <<>> /\ IsSpace(Head(s)) THEN lstrip(Tail(s)) ELSE s

RECURSIVE rstrip(_)
rstrip(s) == IF s # <<>> /\ IsSpace(s[Len(s)]) THEN rstrip(SubSeq(s, 1, Len(s) - 1)) ELSE s

strip(s) == rstrip(lstrip(s))

\* str.split(','): the pieces between commas, empty pieces included
RECURSIVE split(_, _)
split(s, sep) ==
    IF \A i \in 1..Len(s) : s[i] # sep
    THEN <<s>>
    ELSE LET i == CHOOSE j \in 1..Len(s) : s[j] = sep /\ \A k \in 1..(j - 1) : s[k] # sep
         IN  <<SubSeq(s, 1, i - 1)>> \o split(SubSeq(s, i + 1, Len(s)), sep)

\* [f(x) for x in list if keep(x)] helpers
RECURSIVE SelectNonEmpty(_)
SelectNonEmpty(list) ==
    IF list = <<>> THEN <<>>
    ELSE (IF Head(list) # <<>> THEN <<Head(list)>> ELSE <<>>) \o SelectNonEmpty(Tail(list))

\* order of two strings as Python compares them (by code point)
RECURSIVE StrLess(_, _)
StrLess(a, b) ==
    IF a = <<>> THEN b # <<>>
    ELSE IF b = <<>> THEN FALSE
    ELSE IF Head(a) = Head(b) THEN StrLess(Tail(a), Tail(b))
    ELSE CharCode[Head(a)] < CharCode[Head(b)]

\* the distinct elements of a list, in order of first occurrence
RECURSIVE Dedupe(_)
Dedupe(list) ==
    IF list = <<>> THEN <<>>
    ELSE LET init == Dedupe(SubSeq(list, 1, Len(list) - 1))
             last == list[Len(list)]
         IN  IF InList(last, init) THEN init ELSE Append(init, last)

RemoveAt(list, i) == SubSeq(list, 1, i - 1) \o SubSeq(list, i + 1, Len(list))

\* the k-th permutation of a list (factorial number system)
RECURSIVE KthPerm(_, _)
KthPerm(list, k) ==
    IF list = <<>> THEN <<>>
    ELSE LET n == Len(list)
             i == (k % n) + 1
         IN  <<list[i]>> \o KthPerm(RemoveAt(list, i), k \div n)

\* mutant: the list is not deduplicated
ListOfSetKeepingDuplicates(list, seed) == KthPerm(list, seed)

\* list(set(list)): the distinct elements in the iteration order of a Python
\* set of str, which depends on the process's string hash seed
ListOfSet(list, seed) == KthPerm(Dedupe(list), seed)

\* sorted(list) for a list of distinct strings
sorted(list) == SortSeq(list, StrLess)

\* dict.get(key, default)
Get(d, key, default) == IF key \in DOMAIN d THEN d[key] ELSE default

EmptyDict == [k \in {} |-> k]

(***************************************************************************)
(* recommender_system/config.py                                            *)
(***************************************************************************)
WEIGHTS ==
    [frequency_band |-> 5, environment |-> 3, connectivity_option |-> 2,
     power_keyword |-> 1, text_similarity_scale |-> 10]

POWER_KEYWORD_MAPPING ==
    ("DC Power" :> <<<<"d","c"," ","p","o","w","e","r">>, <<"d","c"," ","s","u","p","p","l","y">>>>)
    @@ ("AC Power" :> <<<<"a","c"," ","p","o","w","e","r">>, <<"a","c"," ","s","u","p","p","l","y">>>>)
    @@ ("Battery Powered" :> <<<<"b","a","t","t","e","r","y">>, <<"b","a","t","t","e","r","i","e","s">>, <<"b","a","t","t","e","r","y","-","p","o","w","e","r","e","d">>>>)
    @@ ("USB Powered" :> <<<<"u","s","b"," ","p","o","w","e","r">>, <<"u","s","b"," ","p","o","w","e","r","e","d">>>>)
    @@ ("Solar Power" :> <<<<"s","o","l","a","r">>, <<"s","o","l","a","r"," ","p","o","w","e","r">>, <<"s","o","l","a","r","-","p","o","w","e","r","e","d">>>>)
    @@ ("PoE (Power over Ethernet)" :> <<<<"p","o","e">>, <<"p","o","w","e","r"," ","o","v","e","r"," ","e","t","h","e","r","n","e","t">>>>)
    @@ ("Other / Not Specified" :> <<>>)

CONNECTIVITY_JSON_TO_PRODUCT_KEYWORDS ==
    (<<"l","o","r","a","w","a","n">> :> <<<<"l","o","r","a","w","a","n">>, <<"l","o","r","a"," ","w","a","n">>>>)
    @@ (<<"l","o","r","a","_","p","2","p">> :> <<<<"l","o","r","a"," ","p","2","p">>, <<"l","o","r","a"," ","p","o","i","n","t","-","t","o","-","p","o","i","n","t">>>>)
    @@ (<<"l","o","r","a">> :> <<<<"l","o","r","a">>>>)
    @@ (<<"m","e","s","h","t","a","s","t","i","c">> :> <<<<"m","e","s","h","t","a","s","t","i","c">>>>)
    @@ (<<"w","i","f","i">> :> <<<<"w","i","-","f","i">>, <<"w","i","f","i">>, <<"w","l","a","n">>, <<"w","i","r","e","l","e","s","s"," ","l","a","n">>>>)
    @@ (<<"b","l","e">> :> <<<<"b","l","e">>, <<"b","l","u","e","t","o","o","t","h"," ","l","o","w"," ","e","n","e","r","g","y">>, <<"b","l","u","e","t","o","o","t","h"," ","l","e">>>>)
    @@ (<<"n","f","c">> :> <<<<"n","f","c">>, <<"n","e","a","r"," ","f","i","e","l","d"," ","c","o","m","m","u","n","i","c","a","t","i","o","n">>>>)
    @@ (<<"u","w","b">> :> <<<<"u","w","b">>, <<"u","l","t","r","a","-","w","i","d","e","b","a","n","d">>>>)
    @@ (<<"l","t","e">> :> <<<<"l","t","e">>, <<"4","g">>>>)
    @@ (<<"5","g">> :> <<<<"5","g">>, <<"5","g"," ","n","r">>>>)
    @@ (<<"l","t","e","_","m","_","c","a","t","_","m","1">> :> <<<<"l","t","e","-","m">>, <<"c","a","t","-","m","1">>, <<"l","t","e"," ","c","a","t"," ","m","1">>>>)
    @@ (<<"n","b","_","i","o","t">> :> <<<<"n","b","-","i","o","t">>, <<"n","a","r","r","o","w","b","a","n","d"," ","i","o","t">>>>)
    @@ (<<"g","s","m">> :> <<<<"g","s","m">>>>)
    @@ (<<"a","g","w">> :> <<<<"a","g","w">>>>)
    @@ (<<"l","p","w","a","n","_","o","t","h","e","r">> :> <<>>)
    @@ (<<"g","p","s">> :> <<<<"g","p","s">>, <<"g","l","o","b","a","l"," ","p","o","s","i","t","i","o","n","i","n","g"," ","s","y","s","t","e","m">>>>)
    @@ (<<"g","n","s","s">> :> <<<<"g","n","s","s">>>>)
    @@ (<<"e","t","h","e","r","n","e","t">> :> <<<<"e","t","h","e","r","n","e","t">>, <<"r","j","4","5">>, <<"l","a","n"," ","p","o","r","t">>>>)
    @@ (<<"p","o","e">> :> <<<<"p","o","e">>, <<"p","o","w","e","r"," ","o","v","e","r"," ","e","t","h","e","r","n","e","t">>>>)
    @@ (<<"u","s","b">> :> <<<<"u","s","b">>>>)
    @@ (<<"p","c","i","e">> :> <<<<"p","c","i","e">>, <<"p","c","i"," ","e","x","p","r","e","s","s">>>>)
    @@ (<<"t","w","i","s","t","e","d","_","p","a","i","r">> :> <<<<"t","w","i","s","t","e","d"," ","p","a","i","r">>>>)
    @@ (<<"c","o","a","x","i","a","l","_","c","a","b","l","e">> :> <<<<"c","o","a","x","i","a","l">>>>)
    @@ (<<"i","2","c">> :> <<<<"i","2","c">>, <<"i","^2","c">>>>)
    @@ (<<"s","p","i">> :> <<<<"s","p","i">>>>)
    @@ (<<"u","a","r","t","_","s","e","r","i","a","l">> :> <<<<"u","a","r","t">>, <<"s","e","r","i","a","l"," ","p","o","r","t">>, <<"r","s","2","3","2">>, <<"r","s","-","2","3","2">>>>)
    @@ (<<"r","s","4","8","5">> :> <<<<"r","s","4","8","5">>, <<"r","s","-","4","8","5">>>>)
    @@ (<<"s","d","i","1","2">> :> <<<<"s","d","i","1","2">>, <<"s","d","i","-","1","2">>>>)
    @@ (<<"c","a","n","_","b","u","s">> :> <<<<"c","a","n"," ","b","u","s">>, <<"c","a","n","b","u","s">>>>)
    @@ (<<"l","i","n","_","b","u","s">> :> <<<<"l","i","n"," ","b","u","s">>>>)
    @@ (<<"m","q","t","t">> :> <<<<"m","q","t","t">>>>)
    @@ (<<"a","d","c">> :> <<<<"a","d","c">>, <<"a","n","a","l","o","g","-","t","o","-","d","i","g","i","t","a","l">>, <<"a","n","a","l","o","g"," ","i","n","p","u","t">>>>)
    @@ (<<"d","i","g","i","t","a","l","_","i","o">> :> <<<<"d","i","g","i","t","a","l"," ","i","/","o">>, <<"d","i","g","i","t","a","l"," ","i","o">>, <<"g","p","i","o">>, <<"d","i","g","i","t","a","l"," ","i","n","p","u","t">>, <<"d","i","g","i","t","a","l"," ","o","u","t","p","u","t">>>>)

(***************************************************************************)
(* recommender_system/data_loader.py: DataLoader.preprocess_data           *)
(* A raw product is a row of the product table after fillna('').           *)
(***************************************************************************)
\* [x.strip().lower() for x in str(field).split(',') if x.strip()]
RECURSIVE StripLowerEach(_)
StripLowerEach(pieces) ==
    IF pieces = <<>> THEN <<>>
    ELSE (IF strip(Head(pieces)) # <<>> THEN <<lower(strip(Head(pieces)))>> ELSE <<>>)
         \o StripLowerEach(Tail(pieces))

SplitList(field) == StripLowerEach(split(field, ","))

preprocess_data(raw) ==
    [Product_ID                   |-> raw.Product_ID,
     Product_Name                 |-> raw.Product_Name,
     Description_And_Application  |-> raw.Description_And_Application,
     Notes                        |-> raw.Notes,
     Connectivity                 |-> raw.Connectivity,
     Deployment_Environment       |-> raw.Deployment_Environment,
     Region_Support               |-> raw.Region_Support,
     Region_Support_List          |-> SplitList(raw.Region_Support),
     Connectivity_Lower_Text      |-> lower(raw.Connectivity),
     Connectivity_List            |-> SplitList(raw.Connectivity),
     Deployment_Environment_Lower |-> lower(raw.Deployment_Environment)]

(***************************************************************************)
(* recommender_system/hard_matcher.py: HardConstraintMatcher               *)
(* Every dimension returns its outcome ("True", "False" or None), the      *)
(* score it adds and the message it appends to the explanation.            *)
(***************************************************************************)
\* mutant: the band is searched in the region text instead of the region list
FrequencyBandSubstring(product_series, requirements_json) ==
    LET req_freq_band   == lower(Get(Get(requirements_json, "region", EmptyDict), "frequencyBand", <<>>))
        product_regions == product_series.Region_Support_List
    IN  IF req_freq_band # <<>>
        THEN IF Contains(lower(product_series.Region_Support), req_freq_band)
             THEN [outcome |-> "True", score |-> WEIGHTS.frequency_band,
                   message |-> <<"Matched frequency band: ", upper(req_freq_band)>>]
             ELSE [outcome |-> "False", score |-> 0,
                   message |-> <<"FAILED frequency band: Product supports ", product_regions,
                                 ", required ", upper(req_freq_band)>>]
        ELSE [outcome |-> None, score |-> 0,
              message |-> <<"Frequency band not specified by user.">>]

\* 1. Frequency Band
FrequencyBand(product_series, requirements_json) ==
    LET req_freq_band   == lower(Get(Get(requirements_json, "region", EmptyDict), "frequencyBand", <<>>))
        product_regions == product_series.Region_Support_List
    IN  IF req_freq_band # <<>>
        THEN IF InList(req_freq_band, product_regions)
             THEN [outcome |-> "True", score |-> WEIGHTS.frequency_band,
                   message |-> <<"Matched frequency band: ", upper(req_freq_band)>>]
             ELSE [outcome |-> "False", score |-> 0,
                   message |-> <<"FAILED frequency band: Product supports ", product_regions,
                                 ", required ", upper(req_freq_band)>>]
        ELSE [outcome |-> None, score |-> 0,
              message |-> <<"Frequency band not specified by user.">>]

\* mutant: only an exact match of the two environments is compatible
DeploymentEnvironmentExact(product_series, requirements_json) ==
    LET req_env     == lower(Get(Get(requirements_json, "deployment", EmptyDict), "environment", <<>>))
        product_env == product_series.Deployment_Environment_Lower
    IN  IF req_env # <<>>
        THEN IF product_env = req_env
             THEN [outcome |-> "True", score |-> WEIGHTS.environment,
                   message |-> <<"Matched environment: User '", capitalize(req_env),
                                 "', Product '", capitalize(product_env), "'">>]
             ELSE [outcome |-> "False", score |-> 0,
                   message |-> <<"FAILED environment: Product is '", capitalize(product_env),
                                 "', required '", capitalize(req_env), "'">>]
        ELSE [outcome |-> None, score |-> 0,
              message |-> <<"Deployment environment not specified by user.">>]

\* 2. Deployment Environment
DeploymentEnvironment(product_series, requirements_json) ==
    LET req_env     == lower(Get(Get(requirements_json, "deployment", EmptyDict), "environment", <<>>))
        product_env == product_series.Deployment_Environment_Lower
        both        == <<"b","o","t","h">>
        indoor      == <<"i","n","d","o","o","r">>
        outdoor     == <<"o","u","t","d","o","o","r">>
        matched_env ==
            \/ product_env = req_env
            \/ req_env = both /\ product_env \in {indoor, outdoor, both, <<>>}
            \/ product_env = both /\ req_env \in {indoor, outdoor}
    IN  IF req_env # <<>>
        THEN IF matched_env
             THEN [outcome |-> "True", score |-> WEIGHTS.environment,
                   message |-> <<"Matched environment: User '", capitalize(req_env),
                                 "', Product '", capitalize(product_env), "'">>]
             ELSE [outcome |-> "False", score |-> 0,
                   message |-> <<"FAILED environment: Product is '", capitalize(product_env),
                                 "', required '", capitalize(req_env), "'">>]
        ELSE [outcome |-> None, score |-> 0,
              message |-> <<"Deployment environment not specified by user.">>]

\* for conn_category_key, conn_ids in elaborate_conn.items(): extend with lower-cased ids
RECURSIVE FlattenLower(_)
FlattenLower(items) ==
    IF items = <<>> THEN <<>>
    ELSE [i \in 1..Len(Head(items)[2]) |-> lower(Head(items)[2][i])] \o FlattenLower(Tail(items))

\* one requested id matches the product when one of its keywords is in the
\* pre-split list or is a substring of the raw lower-cased text
ConnIdMatches(req_conn_id, product_series) ==
    LET keywords_to_check       == Get(CONNECTIVITY_JSON_TO_PRODUCT_KEYWORDS, req_conn_id, <<req_conn_id>>)
        product_conn_text_lower == product_series.Connectivity_Lower_Text
        product_conn_list_lower == product_series.Connectivity_List
    IN  \E k \in 1..Len(keywords_to_check) :
            \/ InList(keywords_to_check[k], product_conn_list_lower)
            \/ (product_conn_text_lower # <<>> /\ Contains(product_conn_text_lower, keywords_to_check[k]))

\* matched_conn_options_found: the upper-cased ids that matched, in loop order
RECURSIVE MatchedConnOptions(_, _)
MatchedConnOptions(ids, product_series) ==
    IF ids = <<>> THEN <<>>
    ELSE (IF ConnIdMatches(Head(ids), product_series) THEN <<upper(Head(ids))>> ELSE <<>>)
         \o MatchedConnOptions(Tail(ids), product_series)

\* mutant: every requested id has to match (AND across the ids)
ConnectivityAllTokens(product_series, requirements_json, seed) ==
    LET elaborate_conn == Get(Get(requirements_json, "connectivity", EmptyDict), "elaborate", <<>>)
        user_connectivity_reqs_ids == ListOfSet(FlattenLower(elaborate_conn), seed)
        matched_conn_options_found == MatchedConnOptions(user_connectivity_reqs_ids, product_series)
    IN  IF user_connectivity_reqs_ids # <<>>
        THEN IF Len(matched_conn_options_found) = Len(user_connectivity_reqs_ids)
             THEN [outcome |-> "True",
                   score |-> WEIGHTS.connectivity_option * Len(matched_conn_options_found),
                   message |-> <<"Matched connectivity options: ",
                                 sorted(ListOfSet(matched_conn_options_found, seed))>>]
             ELSE [outcome |-> "False", score |-> 0,
                   message |-> <<"FAILED connectivity: No product match for user required options: ",
                                 user_connectivity_reqs_ids>>]
        ELSE [outcome |-> None, score |-> 0,
              message |-> <<"Connectivity not specified by user.">>]

\* 3. Connectivity
Connectivity(product_series, requirements_json, seed) ==
    LET elaborate_conn == Get(Get(requirements_json, "connectivity", EmptyDict), "elaborate", <<>>)
        user_connectivity_reqs_ids == ListOfSet(FlattenLower(elaborate_conn), seed)
        matched_conn_options_found == MatchedConnOptions(user_connectivity_reqs_ids, product_series)
    IN  IF user_connectivity_reqs_ids # <<>>
        THEN IF matched_conn_options_found # <<>>
             THEN [outcome |-> "True",
                   score |-> WEIGHTS.connectivity_option * Len(matched_conn_options_found),
                   message |-> <<"Matched connectivity options: ",
                                 sorted(ListOfSet(matched_conn_options_found, seed))>>]
             ELSE [outcome |-> "False", score |-> 0,
                   message |-> <<"FAILED connectivity: No product match for user required options: ",
                                 user_connectivity_reqs_ids>>]
        ELSE [outcome |-> None, score |-> 0,
              message |-> <<"Connectivity not specified by user.">>]

\* the first keyword of the label found in the text, as the entry
\* "'<keyword>' (for <label>)", or no entry
FirstPowerKeyword(user_power_label, product_text_for_power) ==
    LET power_keywords_for_label == Get(POWER_KEYWORD_MAPPING, user_power_label, <<>>)
        hits == {k \in 1..Len(power_keywords_for_label) :
                    ReSearchWord(power_keywords_for_label[k], product_text_for_power)}
    IN  IF hits = {} THEN <<>>
        ELSE LET first == CHOOSE k \in hits : \A j \in hits : k <= j
             IN  <<<<"'", power_keywords_for_label[first], "' (for ", user_power_label, ")">>>>

\* power_keywords_found_in_product, in loop order
RECURSIVE PowerKeywordsFound(_, _)
PowerKeywordsFound(labels, product_text_for_power) ==
    IF labels = <<>> THEN <<>>
    ELSE FirstPowerKeyword(Head(labels), product_text_for_power)
         \o PowerKeywordsFound(Tail(labels), product_text_for_power)

\* mutant: a missing power section fails the product
PowerRequired(product_series, requirements_json, seed) ==
    LET req_power_options_labels == Get(requirements_json, "power", <<>>)
        product_text_for_power ==
            lower(product_series.Description_And_Application \o <<" ">> \o product_series.Notes)
        power_keywords_found_in_product ==
            PowerKeywordsFound(req_power_options_labels, product_text_for_power)
    IN  IF power_keywords_found_in_product # <<>>
        THEN [outcome |-> "True", score |-> WEIGHTS.power_keyword,
              message |-> <<"Power requirement(s) met: Found ",
                            ListOfSet(power_keywords_found_in_product, seed)>>]
        ELSE [outcome |-> "False", score |-> 0,
              message |-> <<"FAILED power: No product match for user required power options (",
                            req_power_options_labels, ") in product description/notes.">>]

\* mutant: the power weight is added once per requested label that matched
PowerPerLabel(product_series, requirements_json, seed) ==
    LET req_power_options_labels == Get(requirements_json, "power", <<>>)
        product_text_for_power ==
            lower(product_series.Description_And_Application \o <<" ">> \o product_series.Notes)
        power_keywords_found_in_product ==
            PowerKeywordsFound(req_power_options_labels, product_text_for_power)
    IN  IF req_power_options_labels # <<>>
        THEN IF power_keywords_found_in_product # <<>>
             THEN [outcome |-> "True",
                   score |-> WEIGHTS.power_keyword * Len(power_keywords_found_in_product),
                   message |-> <<"Power requirement(s) met: Found ",
                                 ListOfSet(power_keywords_found_in_product, seed)>>]
             ELSE [outcome |-> "False", score |-> 0,
                   message |-> <<"FAILED power: No product match for user required power options (",
                                 req_power_options_labels, ") in product description/notes.">>]
        ELSE [outcome |-> None, score |-> 0,
              message |-> <<"Power requirements not specified by user.">>]

\* mutant: labels without keyword phrases are left out of the request, and a
\* request left with no label counts as not specified
PowerKeywordlessIgnored(product_series, requirements_json, seed) ==
    LET all_labels == Get(requirements_json, "power", <<>>)
        req_power_options_labels ==
            SelectSeq(all_labels,
                      LAMBDA label : Get(POWER_KEYWORD_MAPPING, label, <<>>) # <<>>)
        product_text_for_power ==
            lower(product_series.Description_And_Application \o <<" ">> \o product_series.Notes)
        power_keywords_found_in_product ==
            PowerKeywordsFound(req_power_options_labels, product_text_for_power)
    IN  IF req_power_options_labels # <<>>
        THEN IF power_keywords_found_in_product # <<>>
             THEN [outcome |-> "True", score |-> WEIGHTS.power_keyword,
                   message |-> <<"Power requirement(s) met: Found ",
                                 ListOfSet(power_keywords_found_in_product, seed)>>]
             ELSE [outcome |-> "False", score |-> 0,
                   message |-> <<"FAILED power: No product match for user required power options (",
                                 req_power_options_labels, ") in product description/notes.">>]
        ELSE [outcome |-> None, score |-> 0,
              message |-> <<"Power requirements not specified by user.">>]

\* 4. Power
Power(product_series, requirements_json, seed) ==
    LET req_power_options_labels == Get(requirements_json, "power", <<>>)
        product_text_for_power ==
            lower(product_series.Description_And_Application \o <<" ">> \o product_series.Notes)
        power_keywords_found_in_product ==
            PowerKeywordsFound(req_power_options_labels, product_text_for_power)
    IN  IF req_power_options_labels # <<>>
        THEN IF power_keywords_found_in_product # <<>>
             THEN [outcome |-> "True", score |-> WEIGHTS.power_keyword,
                   message |-> <<"Power requirement(s) met: Found ",
                                 ListOfSet(power_keywords_found_in_product, seed)>>]
             ELSE [outcome |-> "False", score |-> 0,
                   message |-> <<"FAILED power: No product match for user required power options (",
                                 req_power_options_labels, ") in product description/notes.">>]
        ELSE [outcome |-> None, score |-> 0,
              message |-> <<"Power requirements not specified by user.">>]

\* mutant: the dimensions after the first failed one are not evaluated
check_constraints_short_circuit(product_series, requirements_json, seed) ==
    LET fb  == FrequencyBand(product_series, requirements_json)
        skipped == [outcome |-> None, score |-> 0, message |-> <<"Not evaluated.">>]
        env == IF fb.outcome = "False" THEN skipped
               ELSE DeploymentEnvironment(product_series, requirements_json)
        con == IF fb.outcome = "False" \/ env.outcome = "False" THEN skipped
               ELSE Connectivity(product_series, requirements_json, seed)
        pow == IF fb.outcome = "False" \/ env.outcome = "False" \/ con.outcome = "False"
               THEN skipped
               ELSE Power(product_series, requirements_json, seed)
    IN  [passed      |-> fb.outcome # "False" /\ env.outcome # "False"
                         /\ con.outcome # "False" /\ pow.outcome # "False",
         score       |-> fb.score + env.score + con.score + pow.score,
         details     |-> [frequency_band |-> fb.outcome, environment |-> env.outcome,
                          connectivity |-> con.outcome, power |-> pow.outcome],
         explanation |-> <<fb.message, env.message, con.message, pow.message>>]

\* check_constraints(product_series, requirements_json) under string hash seed `seed'
check_constraints(product_series, requirements_json, seed) ==
    LET fb  == FrequencyBand(product_series, requirements_json)
        env == DeploymentEnvironment(product_series, requirements_json)
        con == Connectivity(product_series, requirements_json, seed)
        pow == Power(product_series, requirements_json, seed)
    IN  [passed      |-> fb.outcome # "False" /\ env.outcome # "False"
                         /\ con.outcome # "False" /\ pow.outcome # "False",
         score       |-> fb.score + env.score + con.score + pow.score,
         details     |-> [frequency_band |-> fb.outcome, environment |-> env.outcome,
                          connectivity |-> con.outcome, power |-> pow.outcome],
         explanation |-> <<fb.message, env.message, con.message, pow.message>>]

(***************************************************************************)
(* recommender_system/soft_matcher.py: SoftMatcher                         *)
(***************************************************************************)
\* " ".join(parts)
RECURSIVE JoinSpace(_)
JoinSpace(parts) ==
    IF parts = <<>> THEN <<>>
    ELSE IF Len(parts) = 1 THEN Head(parts)
    ELSE Head(parts) \o <<" ">> \o JoinSpace(Tail(parts))

\* re.sub(r'\s+', ' ', text): every run of white space becomes one space
RECURSIVE CollapseSpaces(_)
CollapseSpaces(text) ==
    IF text = <<>> THEN <<>>
    ELSE IF IsSpace(Head(text))
         THEN <<" ">> \o CollapseSpaces(lstrip(text))
         ELSE <<Head(text)>> \o CollapseSpaces(Tail(text))

\* " ".join(filter(None, parts)), white space normalised, stripped, lower-cased
NormalizeText(parts) == lower(strip(CollapseSpaces(JoinSpace(SelectNonEmpty(parts)))))

\* the Feature_Description of every feature of features_df whose Feature_ID is
\* associated with product_id in product_feature_map_df, in features_df order
FeatureDescriptions(product_id, features_df, product_feature_map_df) ==
    LET associated_feature_ids ==
            {product_feature_map_df[m].Feature_ID :
                m \in {n \in 1..Len(product_feature_map_df) :
                          product_feature_map_df[n].Product_ID = product_id}}
        Pick[k \in 0..Len(features_df)] ==
            IF k = 0 THEN <<>>
            ELSE Pick[k - 1] \o (IF features_df[k].Feature_ID \in associated_feature_ids
                                 THEN <<features_df[k].Feature_Description>> ELSE <<>>)
    IN  Pick[Len(features_df)]

build_product_corpus(product_row, features_df, product_feature_map_df) ==
    LET texts == <<product_row.Description_And_Application, product_row.Notes,
                   product_row.Connectivity>>
        feature_texts ==
            IF features_df # <<>> /\ product_feature_map_df # <<>> /\ product_row.Product_ID # ""
            THEN FeatureDescriptions(product_row.Product_ID, features_df, product_feature_map_df)
            ELSE <<>>
    IN  NormalizeText(texts \o feature_texts)

build_requirement_query(requirements_json) ==
    LET app_info      == Get(requirements_json, "application", EmptyDict)
        type          == Get(app_info, "type", <<>>)
        subtypes      == Get(app_info, "subtypes", <<>>)
        other_subtype == Get(app_info, "otherSubtype", <<>>)
        details       == Get(requirements_json, "additionalDetails", <<>>)
        query_parts   == <<type>>
                         \o (IF subtypes # <<>> THEN <<JoinSpace(subtypes)>> ELSE <<>>)
                         \o (IF other_subtype # <<>> THEN <<other_subtype>> ELSE <<>>)
                         \o <<details>>
    IN  NormalizeText(query_parts)

\* Python values that may be None: None, a numpy array, a list.
NoneValue == [kind |-> "None", data |-> <<>>]

ndarray(data) == [kind |-> "ndarray", data |-> data]

pylist(data) == [kind |-> "list", data |-> data]

\* The embedding provider (SentenceTransformer.encode) is an opaque,
\* deterministic map from a text to a vector.  A vector is modelled as a unit
\* vector of the plane, with data <<a>> for the direction a * 45 degrees; the
\* zero-length array np.array([]) has data <<>>.
NumAngles == 4

RECURSIVE CharSum(_)
CharSum(text) ==
    IF text = <<>> THEN 0
    ELSE (IF Head(text) \in DOMAIN CharCode THEN CharCode[Head(text)] ELSE 1) + CharSum(Tail(text))

encode(text) == ndarray(<<CharSum(text) % NumAngles>>)

\* SoftMatcher.get_embeddings(texts); raises: the encode call throws.
\* The result is None, the empty list, or the array of one vector per text.
get_embeddings(model, texts, raises) ==
    IF model = None THEN NoneValue
    ELSE IF texts = <<>> \/ \A i \in 1..Len(texts) : texts[i] = <<>> THEN pylist(<<>>)
    ELSE IF raises THEN NoneValue
    ELSE ndarray([i \in 1..Len(texts) |-> encode(texts[i])])

\* the batches SoftMatcher.get_embeddings(texts) hands to model.encode: the
\* whole list at once, and nothing without a model or for texts that are all empty
encode_batches(model, texts) ==
    IF model = None THEN <<>>
    ELSE IF texts = <<>> \/ \A i \in 1..Len(texts) : texts[i] = <<>> THEN <<>>
    ELSE <<texts>>

\* cosine of k * 45 degrees, in units of 10^-5
COS45 == <<100000, 70711, 0, -70711, -100000, -70711, 0, 70711>>

\* util.pytorch_cos_sim of two vectors
cos_sim(a, b) == COS45[((a.data[1] - b.data[1]) % 8) + 1]

\* SoftMatcher.calculate_similarity(query_embedding, product_embeddings_list):
\* one similarity per product embedding, in input order
calculate_similarity(query_embedding, product_embeddings_list) ==
    IF query_embedding = NoneValue \/ product_embeddings_list = <<>> THEN <<>>
    ELSE [i \in 1..Len(product_embeddings_list) |->
              cos_sim(query_embedding, product_embeddings_list[i])]

(***************************************************************************)
(* The catalogs and requirement documents the model draws its inputs from. *)
(***************************************************************************)
Gateway ==
    [Product_Name |-> "Gateway",
     Description_And_Application |-> <<"S","o","l","a","r"," ","g","a","t","e","w","a","y">>,
     Notes |-> <<"b","a","t","t","e","r","y">>,
     Connectivity |-> <<"L","o","R","a","W","A","N",","," ","E","t","h","e","r","n","e","t">>,
     Deployment_Environment |-> <<"O","u","t","d","o","o","r">>,
     Region_Support |-> <<"U","S","9","1","5",","," ","E","U","8","6","8">>]

Module ==
    [Product_Name |-> "Module",
     Description_And_Application |-> <<>>,
     Notes |-> <<>>,
     Connectivity |-> <<"L","o","R","a">>,
     Deployment_Environment |-> <<"B","o","t","h">>,
     Region_Support |-> <<"U","S","9","1","5">>]

Blank ==
    [Product_Name |-> "Blank",
     Description_And_Application |-> <<>>,
     Notes |-> <<>>,
     Connectivity |-> <<>>,
     Deployment_Environment |-> <<>>,
     Region_Support |-> <<>>]

ReqNothing ==
    EmptyDict

ReqBand ==
    ("region" :> [frequencyBand |-> <<"U","S","9","1","5">>])
    @@ ("application" :> [type |-> <<"T","r","a","c","k","i","n","g">>, subtypes |-> <<<<"A","s","s","e","t">>>>, otherSubtype |-> <<>>])

ReqPower ==
    ("power" :> <<"Battery Powered", "Solar Power">>)
    @@ ("additionalDetails" :> <<"S","o","l","a","r"," "," ","g","a","t","e","w","a","y">>)

ReqConn ==
    ("deployment" :> [environment |-> <<"B","o","t","h">>])
    @@ ("connectivity" :> [elaborate |-> <<<<"wirelessCommunication", <<<<"l","o","r","a","w","a","n">>, <<"B","L","E">>>>>>, <<"wiredInterfaces", <<<<"b","l","e">>>>>>>>])

ReqNoMatch ==
    ("region" :> [frequencyBand |-> <<"A","S","9","2","3">>])
    @@ ("additionalDetails" :> <<"L","o","R","a">>)

ReqEnv ==
    ("deployment" :> [environment |-> <<"o","u","t","d","o","o","r">>])
    @@ ("connectivity" :> [elaborate |-> <<<<"wiredInterfaces", <<<<"l","o","r","a">>, <<"e","t","h","e","r","n","e","t">>>>>>>>])
    @@ ("application" :> [type |-> <<>>, otherSubtype |-> <<"B","L","E">>])

\* the one configured power label that has no keyword phrases
ReqOther ==
    ("power" :> <<"Other / Not Specified">>)
    @@ ("additionalDetails" :> <<"S","o","l","a","r">>)

\* a power label that is not in POWER_KEYWORD_MAPPING
ReqUnlisted ==
    ("power" :> <<"solar">>)

\* the one connectivity id whose keyword list is empty
ReqLpwan ==
    ("connectivity" :> [elaborate |-> <<<<"wirelessCommunication", <<<<"L","P","W","A","N","_","O","t","h","e","r">>>>>>>>])

\* a connectivity id that is not in CONNECTIVITY_JSON_TO_PRODUCT_KEYWORDS
ReqWan ==
    ("connectivity" :> [elaborate |-> <<<<"other", <<<<"W","A","N">>>>>>>>])

ProductKinds == {Gateway, Module, Blank}

Requirements == {ReqNothing, ReqBand, ReqPower, ReqConn, ReqNoMatch, ReqEnv,
                 ReqOther, ReqUnlisted, ReqLpwan, ReqWan}

\* the feature table and the product-feature mapping table
NoFeatures == [features_df |-> <<>>, product_feature_map_df |-> <<>>]

OneFeature ==
    [features_df |-> <<[Feature_ID |-> "F1", Feature_Description |-> <<"G","P","S">>]>>,
     product_feature_map_df |-> <<[Product_ID |-> "P1", Feature_ID |-> "F1"]>>]

ProductIds == <<"P1", "P2", "P3", "P4", "P5", "P6", "P7", "P8">>

\* the row of the product table at position i: Product_ID is unique per row
RawRow(kind, i) ==
    [Product_ID                  |-> ProductIds[i],
     Product_Name                |-> kind.Product_Name,
     Description_And_Application |-> kind.Description_And_Application,
     Notes                       |-> kind.Notes,
     Connectivity                |-> kind.Connectivity,
     Deployment_Environment      |-> kind.Deployment_Environment,
     Region_Support              |-> kind.Region_Support]

\* the product tables of at most n rows over a set of kinds
CatalogsOver(kinds, n) ==
    UNION {[1..len -> kinds] : len \in 0..n}

(***************************************************************************)
(* recommender_system/recommender.py: ProductRecommender                   *)
(***************************************************************************)
VARIABLES
    products_df,             \* the product table, with combined_text and embedding
    model,                   \* soft_matcher.model: "loaded" or None
    hashseed,                \* the string hash seed of the running process
    pc,                      \* position of the request in recommend
    requirements_json,       \* argument of recommend
    top_n,                   \* argument of recommend
    top_n_given,             \* whether the caller passed top_n
    index,                   \* next row of the FILTERING loop
    hard_constraint_results, \* one entry per product that passed, in table order
    requirement_query_str,
    query_embedding,         \* result of get_embeddings([requirement_query_str])
    recommendation_data,
    ranked_products,
    output_recommendations,  \* the list recommend returned
    calls,                   \* embedding work done by the request
    encoded,                 \* batches handed to model.encode by the constructor and,
                             \* once a request is in hand, by that request
    runs,                    \* number of requests answered
    prev,                    \* the previous request's answer
    cc_args,                 \* arguments of a direct call of check_constraints
    cc_result,               \* what the direct calls returned
    recommender_instance,    \* api_main.recommender_instance
    initialization_error_message, \* api_main.initialization_error_message
    startup,                 \* how api_main.startup_event ended, "pending" before it ran
    response                 \* the last HTTP response of the API

vars == <<products_df, model, hashseed, pc, requirements_json, top_n, top_n_given, index,
          hard_constraint_results, requirement_query_str, query_embedding,
          recommendation_data, ranked_products, output_recommendations, calls, encoded,
          runs, prev, cc_args, cc_result, recommender_instance,
          initialization_error_message, startup, response>>

\* the globals of api_main
api_vars == <<recommender_instance, initialization_error_message, startup, response>>

\* api_main at import, before the startup event
ApiImported ==
    /\ recommender_instance = None
    /\ initialization_error_message = None
    /\ startup = "pending"
    /\ response = <<>>

\* ProductRecommender._precompute_product_data
precompute_product_data(rows, features, the_model, raises) ==
    LET product_corpuses ==
            [i \in 1..Len(rows) |->
                build_product_corpus(rows[i], features.features_df, features.product_feature_map_df)]
        embeddings == get_embeddings(the_model, product_corpuses, raises)
        Row(i, emb) ==
            [Product_ID                   |-> rows[i].Product_ID,
             Product_Name                 |-> rows[i].Product_Name,
             Description_And_Application  |-> rows[i].Description_And_Application,
             Notes                        |-> rows[i].Notes,
             Connectivity                 |-> rows[i].Connectivity,
             Deployment_Environment       |-> rows[i].Deployment_Environment,
             Region_Support               |-> rows[i].Region_Support,
             Region_Support_List          |-> rows[i].Region_Support_List,
             Connectivity_Lower_Text      |-> rows[i].Connectivity_Lower_Text,
             Connectivity_List            |-> rows[i].Connectivity_List,
             Deployment_Environment_Lower |-> rows[i].Deployment_Environment_Lower,
             combined_text                |-> product_corpuses[i],
             embedding                    |-> emb]
    IN  IF rows = <<>> THEN <<>>
        ELSE IF \A i \in 1..Len(rows) : product_corpuses[i] = <<>>
        THEN [i \in 1..Len(rows) |-> Row(i, ndarray(<<>>))]
        ELSE IF embeddings # NoneValue /\ Len(embeddings.data) = Len(rows)
        THEN [i \in 1..Len(rows) |-> Row(i, embeddings.data[i])]
        ELSE [i \in 1..Len(rows) |-> Row(i, ndarray(<<>>))]

\* the batches ProductRecommender._precompute_product_data has encoded
precompute_encodes(rows, features, the_model) ==
    LET product_corpuses ==
            [i \in 1..Len(rows) |->
                build_product_corpus(rows[i], features.features_df, features.product_feature_map_df)]
    IN  IF rows = <<>> THEN <<>>
        ELSE IF \A i \in 1..Len(rows) : product_corpuses[i] = <<>> THEN <<>>
        ELSE encode_batches(the_model, product_corpuses)

\* the state of a process between two requests
Idle ==
    /\ pc = "idle"
    /\ requirements_json = EmptyDict
    /\ top_n = 0
    /\ top_n_given = FALSE
    /\ index = 0
    /\ hard_constraint_results = <<>>
    /\ requirement_query_str = <<>>
    /\ query_embedding = NoneValue
    /\ recommendation_data = <<>>
    /\ ranked_products = <<>>
    /\ output_recommendations = <<>>
    /\ calls = [get_embeddings |-> 0, encode |-> 0, calculate_similarity |-> 0]

\* a process constructed over `catalog': DataLoader.preprocess_data, then
\* ProductRecommender.__init__
Constructed(catalog, features, the_model, raises) ==
    /\ products_df = precompute_product_data(
                        [i \in 1..Len(catalog) |-> preprocess_data(RawRow(catalog[i], i))],
                        features, the_model, raises)
    /\ encoded = precompute_encodes(
                    [i \in 1..Len(catalog) |-> preprocess_data(RawRow(catalog[i], i))],
                    features, the_model)
    /\ model = the_model
    /\ Idle
    /\ runs = 0
    /\ prev = <<>>

Init ==
    \E catalog \in CatalogsOver(ProductKinds, MaxCatalog),
       the_model \in {"loaded", None}, raises \in BOOLEAN, seed \in 0..(HashSeeds - 1) :
        /\ hashseed = seed
        /\ Constructed(catalog, OneFeature, the_model, raises)
        /\ cc_args = <<>>
        /\ cc_result = <<>>
        /\ ApiImported

\* round(x, d): x to the nearest multiple of unit, halves to the even multiple
round(x, unit) ==
    LET q == x \div unit
        r == x % unit
    IN  IF 2 * r < unit THEN q * unit
        ELSE IF 2 * r > unit THEN (q + 1) * unit
        ELSE IF q % 2 = 0 THEN q * unit ELSE (q + 1) * unit

\* a score of whole points, in units of 10^-5
Points(n) == n * 100000

\* mutant: an unstable insertion, which puts a record before its equals
RECURSIVE InsertByFinalScoreUnstable(_, _)
InsertByFinalScoreUnstable(ranked, rec) ==
    IF ranked = <<>> THEN <<rec>>
    ELSE IF Head(ranked).final_score > rec.final_score
         THEN <<Head(ranked)>> \o InsertByFinalScoreUnstable(Tail(ranked), rec)
         ELSE <<rec>> \o ranked

\* sorted(data, key=final_score, reverse=True): stable, so records of equal
\* final_score keep their order in data
RECURSIVE InsertByFinalScore(_, _)
InsertByFinalScore(ranked, rec) ==
    IF ranked = <<>> THEN <<rec>>
    ELSE IF Head(ranked).final_score >= rec.final_score
         THEN <<Head(ranked)>> \o InsertByFinalScore(Tail(ranked), rec)
         ELSE <<rec>> \o ranked

RECURSIVE SortByFinalScoreDesc(_)
SortByFinalScoreDesc(data) ==
    IF data = <<>> THEN <<>>
    ELSE InsertByFinalScore(SortByFinalScoreDesc(SubSeq(data, 1, Len(data) - 1)), data[Len(data)])

\* mutant: a slice that keeps one record too many
SliceToOneMore(list, n) ==
    SubSeq(list, 1, IF n + 1 < Len(list) THEN n + 1 ELSE Len(list))

\* list[:n]
SliceTo(list, n) ==
    IF n >= 0 THEN SubSeq(list, 1, IF n < Len(list) THEN n ELSE Len(list))
    ELSE SubSeq(list, 1, IF Len(list) + n > 0 THEN Len(list) + n ELSE 0)

\* mutant: the default the callers of recommend use
DefaultTopNThree == 1 + 2

\* def recommend(self, requirements_json, top_n=5)
DefaultTopN == 5

MaxTopN == 1

TopNs == (-1)..MaxTopN

\* mutant: the rule score is left out of the final score
DegradedDataNoRuleScore(results, note) ==
    [k \in 1..Len(results) |->
        [product_id              |-> products_df[results[k].index].Product_ID,
         product_name            |-> products_df[results[k].index].Product_Name,
         hard_constraint_score   |-> results[k].hc_score,
         hard_constraint_details |-> results[k].hc_details,
         similarity_score        |-> 0,
         final_score             |-> 0,
         explanation             |-> Append(results[k].hc_explanation, <<note>>)]]

\* the records of the branches that skip the similarity computation
DegradedData(results, note) ==
    [k \in 1..Len(results) |->
        [product_id              |-> products_df[results[k].index].Product_ID,
         product_name            |-> products_df[results[k].index].Product_Name,
         hard_constraint_score   |-> results[k].hc_score,
         hard_constraint_details |-> results[k].hc_details,
         similarity_score        |-> 0,
         final_score             |-> Points(results[k].hc_score),
         explanation             |-> Append(results[k].hc_explanation, <<note>>)]]

\* the positions, among the candidates, of those with a usable embedding
ValidEmbeddingIndices(results) ==
    LET Pick[k \in 0..Len(results)] ==
            IF k = 0 THEN <<>>
            ELSE Pick[k - 1] \o (IF Len(products_df[results[k].index].embedding.data) > 0
                                 THEN <<k>> ELSE <<>>)
    IN  Pick[Len(results)]

\* mutant: the i-th similarity is written to the i-th candidate
SimilarityScoreTempByPosition(results, valid_embedding_indices, cosine_similarities) ==
    [k \in 1..Len(results) |->
        IF k <= Len(cosine_similarities) THEN cosine_similarities[k] ELSE 0]

\* similarity_score_temp: 0.0 for every candidate, then the i-th similarity
\* written to the candidate at valid_embedding_indices[i]
SimilarityScoreTemp(results, valid_embedding_indices, cosine_similarities) ==
    [k \in 1..Len(results) |->
        IF \E i \in 1..Len(cosine_similarities) : valid_embedding_indices[i] = k
        THEN cosine_similarities[CHOOSE i \in 1..Len(cosine_similarities) :
                                    valid_embedding_indices[i] = k]
        ELSE 0]

\* mutant: only the candidates that have a similarity are kept
ScoredDataUsableOnly(results, similarity_score_temp) ==
    LET Keep[k \in 0..Len(results)] ==
            IF k = 0 THEN <<>>
            ELSE Keep[k - 1] \o
                 (IF Len(products_df[results[k].index].embedding.data) > 0
                  THEN <<[product_id              |-> products_df[results[k].index].Product_ID,
                          product_name            |-> products_df[results[k].index].Product_Name,
                          hard_constraint_score   |-> results[k].hc_score,
                          hard_constraint_details |-> results[k].hc_details,
                          similarity_score        |-> round(similarity_score_temp[k], 10),
                          final_score             |-> round(Points(results[k].hc_score)
                                                        + similarity_score_temp[k]
                                                          * WEIGHTS.text_similarity_scale, 1000),
                          explanation             |-> results[k].hc_explanation]>>
                  ELSE <<>>)
    IN  Keep[Len(results)]

\* mutant: the similarity enters the final score unscaled
ScoredDataUnscaled(results, similarity_score_temp) ==
    [k \in 1..Len(results) |->
        LET similarity == similarity_score_temp[k]
            scaled_similarity_score == similarity
            final_score == Points(results[k].hc_score) + scaled_similarity_score
        IN  [product_id              |-> products_df[results[k].index].Product_ID,
             product_name            |-> products_df[results[k].index].Product_Name,
             hard_constraint_score   |-> results[k].hc_score,
             hard_constraint_details |-> results[k].hc_details,
             similarity_score        |-> round(similarity, 10),
             final_score             |-> round(final_score, 1000),
             explanation             |-> Append(results[k].hc_explanation,
                                            <<"Text Similarity Score: ", round(similarity, 1000),
                                              " (scaled: ", round(scaled_similarity_score, 1000), ")">>)]]

\* the records of the branch that computed similarities
ScoredData(results, similarity_score_temp) ==
    [k \in 1..Len(results) |->
        LET similarity == similarity_score_temp[k]
            scaled_similarity_score == similarity * WEIGHTS.text_similarity_scale
            final_score == Points(results[k].hc_score) + scaled_similarity_score
        IN  [product_id              |-> products_df[results[k].index].Product_ID,
             product_name            |-> products_df[results[k].index].Product_Name,
             hard_constraint_score   |-> results[k].hc_score,
             hard_constraint_details |-> results[k].hc_details,
             similarity_score        |-> round(similarity, 10),
             final_score             |-> round(final_score, 1000),
             explanation             |-> Append(results[k].hc_explanation,
                                            <<"Text Similarity Score: ", round(similarity, 1000),
                                              " (scaled: ", round(scaled_similarity_score, 1000), ")">>)]]

\* the output record of a ranked product
OutputRecord(p_data) ==
    [Product_ID                      |-> p_data.product_id,
     Product_Name                    |-> p_data.product_name,
     Hard_Constraints_Passed_Details |-> p_data.hard_constraint_details,
     Text_Similarity                 |-> p_data.similarity_score,
     Final_Score                     |-> p_data.final_score,
     Explanation_Details             |-> p_data.explanation]

RequestFrame == UNCHANGED <<products_df, model, hashseed, runs, prev, cc_args, cc_result, api_vars>>

\* the call of recommend: an empty product table returns [] at once
Call(req, n, given) ==
    /\ pc = "idle"
    /\ requirements_json' = req
    /\ top_n' = n
    /\ top_n_given' = given
    /\ IF products_df = <<>>
       THEN pc' = "DONE" /\ index' = 0
       ELSE pc' = "FILTERING" /\ index' = 1
    /\ encoded' = <<>>
    /\ UNCHANGED <<hard_constraint_results, requirement_query_str, query_embedding,
                   recommendation_data, ranked_products, output_recommendations, calls>>
    /\ RequestFrame

\* a first request, with any requirement and any top_n, given or not
Recommend ==
    /\ runs = 0
    /\ \E req \in Requirements :
          \/ \E n \in TopNs : Call(req, n, TRUE)
          \/ Call(req, DefaultTopN, FALSE)

\* 1. Hard Constraint Filtering: one iteration of the loop over products_df
Filter ==
    /\ pc = "FILTERING"
    /\ index <= Len(products_df)
    /\ LET r == check_constraints(products_df[index], requirements_json, hashseed)
       IN  hard_constraint_results' =
               IF r.passed
               THEN Append(hard_constraint_results,
                           [index |-> index, hc_score |-> r.score, hc_details |-> r.details,
                            hc_explanation |-> r.explanation])
               ELSE hard_constraint_results
    /\ index' = index + 1
    /\ UNCHANGED <<pc, requirements_json, top_n, top_n_given, requirement_query_str,
                   query_embedding, recommendation_data, ranked_products,
                   output_recommendations, calls, encoded>>
    /\ RequestFrame

\* mutant: the loop's end goes on to the query even without a candidate
FilterEndNoEarlyExit ==
    /\ pc = "FILTERING"
    /\ index > Len(products_df)
    /\ pc' = "EMBEDDING"
    /\ UNCHANGED <<requirements_json, top_n, top_n_given, index, hard_constraint_results,
                   requirement_query_str, query_embedding, recommendation_data,
                   ranked_products, output_recommendations, calls, encoded>>
    /\ RequestFrame

\* the end of the loop: no candidate returns [] at once
FilterEnd ==
    /\ pc = "FILTERING"
    /\ index > Len(products_df)
    /\ pc' = IF hard_constraint_results = <<>> THEN "DONE" ELSE "EMBEDDING"
    /\ UNCHANGED <<requirements_json, top_n, top_n_given, index, hard_constraint_results,
                   requirement_query_str, query_embedding, recommendation_data,
                   ranked_products, output_recommendations, calls, encoded>>
    /\ RequestFrame

\* mutant: the query is built and embedded as soon as one product has passed,
\* before the loop over the product table has ended
EmbedEarly(raises) ==
    /\ pc = "FILTERING"
    /\ hard_constraint_results # <<>>
    /\ LET query == build_requirement_query(requirements_json)
       IN  /\ requirement_query_str' = query
           /\ IF strip(query) = <<>> \/ model = None
              THEN UNCHANGED <<query_embedding, calls, encoded>>
              ELSE /\ query_embedding' = get_embeddings(model, <<query>>, raises)
                   /\ calls' = [calls EXCEPT !.get_embeddings = @ + 1, !.encode = @ + 1]
                   /\ encoded' = encoded \o encode_batches(model, <<query>>)
    /\ pc' = "SCORING"
    /\ UNCHANGED <<requirements_json, top_n, top_n_given, index, hard_constraint_results,
                   recommendation_data, ranked_products, output_recommendations>>
    /\ RequestFrame

\* mutant: the request encodes the candidates' corpuses again before the query
EmbedRecomputing(raises) ==
    /\ pc = "EMBEDDING"
    /\ LET query == build_requirement_query(requirements_json)
           corpuses == [k \in 1..Len(hard_constraint_results) |->
                           products_df[hard_constraint_results[k].index].combined_text]
       IN  /\ requirement_query_str' = query
           /\ IF strip(query) = <<>> \/ model = None
              THEN UNCHANGED <<query_embedding, calls, encoded>>
              ELSE /\ query_embedding' = get_embeddings(model, <<query>>, raises)
                   /\ calls' = [calls EXCEPT !.get_embeddings = @ + 2, !.encode = @ + 2]
                   /\ encoded' = encoded \o <<corpuses>> \o encode_batches(model, <<query>>)
    /\ pc' = "SCORING"
    /\ UNCHANGED <<requirements_json, top_n, top_n_given, index, hard_constraint_results,
                   recommendation_data, ranked_products, output_recommendations>>
    /\ RequestFrame

\* 2. the requirement query and its embedding; raises: the encode call throws
Embed(raises) ==
    /\ pc = "EMBEDDING"
    /\ LET query == build_requirement_query(requirements_json)
       IN  /\ requirement_query_str' = query
           /\ IF strip(query) = <<>> \/ model = None
              THEN UNCHANGED <<query_embedding, calls, encoded>>
              ELSE /\ query_embedding' = get_embeddings(model, <<query>>, raises)
                   /\ calls' = [calls EXCEPT !.get_embeddings = @ + 1, !.encode = @ + 1]
                   /\ encoded' = encoded \o encode_batches(model, <<query>>)
    /\ pc' = "SCORING"
    /\ UNCHANGED <<requirements_json, top_n, top_n_given, index, hard_constraint_results,
                   recommendation_data, ranked_products, output_recommendations>>
    /\ RequestFrame

Embedding == \E raises \in BOOLEAN : Embed(raises)

\* mutant: the scratch column similarity_score_temp is written on the product
\* table itself instead of a copy of the candidate rows
ScoringOnProductTable ==
    /\ pc = "SCORING"
    /\ IF strip(requirement_query_str) = <<>> \/ model = None
       THEN /\ recommendation_data' =
                   DegradedData(hard_constraint_results,
                                "Text Similarity: 0.00 (Query empty or model issue)")
            /\ UNCHANGED calls
       ELSE IF query_embedding = NoneValue \/ Len(query_embedding.data) = 0
       THEN /\ recommendation_data' =
                   DegradedData(hard_constraint_results,
                                "Text Similarity: 0.00 (Query embedding failed)")
            /\ UNCHANGED calls
       ELSE LET valid_embedding_indices == ValidEmbeddingIndices(hard_constraint_results)
                product_embeddings_for_similarity ==
                    [i \in 1..Len(valid_embedding_indices) |->
                        products_df[hard_constraint_results[valid_embedding_indices[i]].index].embedding]
                cosine_similarities ==
                    IF product_embeddings_for_similarity = <<>> THEN <<>>
                    ELSE calculate_similarity(query_embedding.data[1],
                                              product_embeddings_for_similarity)
            IN  /\ recommendation_data' =
                       ScoredData(hard_constraint_results,
                                  SimilarityScoreTemp(hard_constraint_results,
                                                      valid_embedding_indices, cosine_similarities))
                /\ calls' = IF product_embeddings_for_similarity = <<>> THEN calls
                            ELSE [calls EXCEPT !.calculate_similarity = @ + 1]
    /\ pc' = "RANKING"
    /\ UNCHANGED <<requirements_json, top_n, top_n_given, index, hard_constraint_results,
                   requirement_query_str, query_embedding, ranked_products,
                   output_recommendations, encoded>>
    /\ products_df' =
           [i \in 1..Len(products_df) |->
               [column \in DOMAIN products_df[i] \cup {"similarity_score_temp"} |->
                   IF column = "similarity_score_temp" THEN 0 ELSE products_df[i][column]]]
    /\ UNCHANGED <<model, hashseed, runs, prev, cc_args, cc_result, api_vars>>

\* the three branches that fill recommendation_data
Scoring ==
    /\ pc = "SCORING"
    /\ IF strip(requirement_query_str) = <<>> \/ model = None
       THEN /\ recommendation_data' =
                   DegradedData(hard_constraint_results,
                                "Text Similarity: 0.00 (Query empty or model issue)")
            /\ UNCHANGED calls
       ELSE IF query_embedding = NoneValue \/ Len(query_embedding.data) = 0
       THEN /\ recommendation_data' =
                   DegradedData(hard_constraint_results,
                                "Text Similarity: 0.00 (Query embedding failed)")
            /\ UNCHANGED calls
       ELSE LET valid_embedding_indices == ValidEmbeddingIndices(hard_constraint_results)
                product_embeddings_for_similarity ==
                    [i \in 1..Len(valid_embedding_indices) |->
                        products_df[hard_constraint_results[valid_embedding_indices[i]].index].embedding]
                cosine_similarities ==
                    IF product_embeddings_for_similarity = <<>> THEN <<>>
                    ELSE calculate_similarity(query_embedding.data[1],
                                              product_embeddings_for_similarity)
            IN  /\ recommendation_data' =
                       ScoredData(hard_constraint_results,
                                  SimilarityScoreTemp(hard_constraint_results,
                                                      valid_embedding_indices, cosine_similarities))
                /\ calls' = IF product_embeddings_for_similarity = <<>> THEN calls
                            ELSE [calls EXCEPT !.calculate_similarity = @ + 1]
    /\ pc' = "RANKING"
    /\ UNCHANGED <<requirements_json, top_n, top_n_given, index, hard_constraint_results,
                   requirement_query_str, query_embedding, ranked_products,
                   output_recommendations, encoded>>
    /\ RequestFrame

\* sort by final score, truncate to top_n, format the output
Ranking ==
    /\ pc = "RANKING"
    /\ LET ranked == SortByFinalScoreDesc(recommendation_data)
           top    == SliceTo(ranked, top_n)
       IN  /\ ranked_products' = ranked
           /\ output_recommendations' = [k \in 1..Len(top) |-> OutputRecord(top[k])]
    /\ pc' = "DONE"
    /\ UNCHANGED <<requirements_json, top_n, top_n_given, index, hard_constraint_results,
                   requirement_query_str, query_embedding, recommendation_data, calls, encoded>>
    /\ RequestFrame

\* recommend returns output_recommendations; the request's locals are dropped
Return ==
    /\ pc = "DONE"
    /\ runs = 0
    /\ prev' = <<[requirements_json |-> requirements_json, top_n |-> top_n,
                  top_n_given |-> top_n_given, query_embedding |-> query_embedding,
                  output_recommendations |-> output_recommendations]>>
    /\ runs' = runs + 1
    /\ pc' = "idle"
    /\ requirements_json' = EmptyDict
    /\ top_n' = 0
    /\ top_n_given' = FALSE
    /\ index' = 0
    /\ hard_constraint_results' = <<>>
    /\ requirement_query_str' = <<>>
    /\ query_embedding' = NoneValue
    /\ recommendation_data' = <<>>
    /\ ranked_products' = <<>>
    /\ output_recommendations' = <<>>
    /\ calls' = [get_embeddings |-> 0, encode |-> 0, calculate_similarity |-> 0]
    /\ encoded' = <<>>
    /\ UNCHANGED <<products_df, model, hashseed, cc_args, cc_result, api_vars>>

\* the same request run again by a second process started on the same product
\* table: the string hash seed is drawn at process start, and a process that
\* draws the first one's seed repeats its run step by step
Rerun ==
    /\ runs = 1
    /\ \E seed \in (0..(HashSeeds - 1)) \ {hashseed} :
          /\ hashseed' = seed
          /\ pc = "idle"
          /\ requirements_json' = prev[1].requirements_json
          /\ top_n' = prev[1].top_n
          /\ top_n_given' = prev[1].top_n_given
          /\ IF products_df = <<>>
             THEN pc' = "DONE" /\ index' = 0
             ELSE pc' = "FILTERING" /\ index' = 1
    /\ encoded' = <<>>
    /\ UNCHANGED <<hard_constraint_results, requirement_query_str, query_embedding,
                   recommendation_data, ranked_products, output_recommendations, calls>>
    /\ UNCHANGED <<products_df, model, runs, prev, cc_args, cc_result, api_vars>>

Next ==
    \/ Recommend
    \/ Filter
    \/ FilterEnd
    \/ Embedding
    \/ Scoring
    \/ Ranking
    \/ Return
    \/ Rerun

Spec == Init /\ [][Next]_vars

(***************************************************************************)
(* check_constraints called directly, on one product row and one           *)
(* requirement document drawn from the products of per-field choices.      *)
(***************************************************************************)
RegionFields == {<<>>, <<"U","S","9","1","5",","," ","E","U","8","6","8">>, <<" ","e","u","8","6","8"," ",",">>}

EnvironmentFields == {<<>>, <<"I","n","d","o","o","r">>, <<"O","u","t","d","o","o","r">>, <<"B","o","t","h">>}

ConnectivityFields == {<<>>, <<"L","o","R","a","W","A","N",","," ","E","t","h","e","r","n","e","t">>, <<"B","L","E">>}

TextFields ==
    {[Description_And_Application |-> <<>>, Notes |-> <<>>],
     [Description_And_Application |-> <<"S","o","l","a","r"," ","g","a","t","e","w","a","y">>, Notes |-> <<"b","a","t","t","e","r","y","-","p","o","w","e","r","e","d">>],
     [Description_And_Application |-> <<"b","a","c","k","u","p"," ","p","a","c","k">>, Notes |-> <<"A","C"," ","p","o","w","e","r">>]}

RowsCC ==
    {preprocess_data(
        [Product_ID                  |-> "P1",
         Product_Name                |-> "Row",
         Description_And_Application |-> t.Description_And_Application,
         Notes                       |-> t.Notes,
         Connectivity                |-> c,
         Deployment_Environment      |-> e,
         Region_Support              |-> r]) :
     r \in RegionFields, e \in EnvironmentFields, c \in ConnectivityFields, t \in TextFields}

\* each section of the requirement document: absent (EmptyDict) or one of a few values
RegionSections ==
    {EmptyDict,
     "region" :> EmptyDict,
     "region" :> [frequencyBand |-> <<>>],
     "region" :> [frequencyBand |-> <<"U","S","9","1","5">>],
     "region" :> [frequencyBand |-> <<"e","u","8","6","8">>],
     "region" :> [frequencyBand |-> <<"U","S","9","1">>]}

DeploymentSections ==
    {EmptyDict,
     "deployment" :> [environment |-> <<"I","n","d","o","o","r">>],
     "deployment" :> [environment |-> <<"o","u","t","d","o","o","r">>],
     "deployment" :> [environment |-> <<"B","O","T","H">>]}

ConnectivitySections ==
    {EmptyDict,
     "connectivity" :> [elaborate |-> <<>>],
     "connectivity" :> [elaborate |-> <<<<"wirelessCommunication", <<<<"l","o","r","a","w","a","n">>, <<"B","L","E">>>>>>, <<"wiredInterfaces", <<<<"b","l","e">>>>>>>>],
     "connectivity" :> [elaborate |-> <<<<"wirelessCommunication", <<<<"b","l","e">>, <<"w","i","f","i">>>>>>>>],
     "connectivity" :> [elaborate |-> <<<<"wirelessCommunication", <<<<"l","p","w","a","n","_","o","t","h","e","r">>>>>>>>],
     "connectivity" :> [elaborate |-> <<<<"other", <<<<"w","a","n">>, <<"E","t","h","e","r","n","e","t">>>>>>>>]}

PowerSections ==
    {EmptyDict,
     "power" :> <<>>,
     "power" :> <<"Battery Powered">>,
     "power" :> <<"Battery Powered", "Solar Power">>,
     "power" :> <<"Other / Not Specified">>,
     "power" :> <<"AC Power", "Mains">>}

RequirementsCC ==
    {r @@ d @@ c @@ p :
     r \in RegionSections, d \in DeploymentSections, c \in ConnectivitySections, p \in PowerSections}

InitCC ==
    \E row \in RowsCC, req \in RequirementsCC, seed \in 0..(HashSeeds - 1) :
        /\ cc_args = <<[product_series |-> row, requirements_json |-> req]>>
        /\ cc_result = <<>>
        /\ hashseed = seed
        /\ Constructed(<<>>, NoFeatures, None, FALSE)
        /\ ApiImported

\* passed_all, hc_score, hc_details, hc_explanation = check_constraints(product_row, requirements_json)
CheckConstraints ==
    /\ cc_args # <<>>
    /\ cc_result = <<>>
    /\ cc_result' = <<check_constraints(cc_args[1].product_series, cc_args[1].requirements_json,
                                        hashseed)>>
    /\ UNCHANGED <<products_df, model, hashseed, pc, requirements_json, top_n, top_n_given,
                   index, hard_constraint_results, requirement_query_str, query_embedding,
                   recommendation_data, ranked_products, output_recommendations, calls, encoded,
                   runs, prev, cc_args, api_vars>>

NextCC == CheckConstraints

SpecCC == InitCC /\ [][NextCC]_vars

(***************************************************************************)
(* check_constraints and build_requirement_query called on a requirement   *)
(* document as the JSON parser delivers it: a member may be absent, null   *)
(* or of another JSON type than the code expects.  A document is the pair  *)
(* of the JSON type of each member (kinds) and the members' values; the    *)
(* value of a member is read only where its type lets the code read it.    *)
(***************************************************************************)
\* the text str(None)
StrOfNone == <<"N","o","n","e">>

KindsJson ==
    [region : {"object", "null", "absent"}, frequencyBand : {"str", "null"},
     deployment : {"object", "null"}, environment : {"str"},
     connectivity : {"object", "null"}, elaborate : {"object", "list", "null"},
     power : {"list", "str", "null", "absent"},
     application : {"object", "null"}, type : {"str", "null"},
     additionalDetails : {"str", "null", "absent"}]

\* the members' values; a string where a list is expected is iterated
\* character by character
DocumentJson(kinds) ==
    (IF kinds.region = "absent" THEN EmptyDict
     ELSE "region" :> [frequencyBand |-> <<"U","S","9","1","5">>])
    @@ ("deployment" :> [environment |-> <<"O","u","t","d","o","o","r">>])
    @@ ("connectivity" :> [elaborate |-> <<<<"wirelessCommunication", <<<<"l","o","r","a","w","a","n">>, <<"b","l","e">>>>>>>>])
    @@ (IF kinds.power = "absent" THEN EmptyDict
        ELSE IF kinds.power = "str" THEN "power" :> <<"A", "C">>
        ELSE "power" :> <<"Battery Powered">>)
    @@ ("application" :> [type |-> <<"T","r","a","c","k","i","n","g">>, otherSubtype |-> <<>>])
    @@ (IF kinds.additionalDetails = "absent" THEN EmptyDict
        ELSE "additionalDetails" :> <<"L","o","R","a">>)

\* the exception check_constraints raises on the document, None when it returns
check_constraints_raises(kinds) ==
    IF kinds.region \notin {"object", "absent"} THEN "AttributeError"
    ELSE IF kinds.region = "object" /\ kinds.frequencyBand # "str" THEN "AttributeError"
    ELSE IF kinds.deployment \notin {"object", "absent"} THEN "AttributeError"
    ELSE IF kinds.deployment = "object" /\ kinds.environment # "str" THEN "AttributeError"
    ELSE IF kinds.connectivity \notin {"object", "absent"} THEN "AttributeError"
    ELSE IF kinds.connectivity = "object" /\ kinds.elaborate \notin {"object", "absent"}
         THEN "AttributeError"
    ELSE None

\* the document as the statements of check_constraints read it when none
\* raises: a null power list is falsy, as the empty list is
SeenByCheckConstraints(document, kinds) ==
    [key \in DOMAIN document |->
        IF key = "power" /\ kinds.power = "null" THEN <<>> ELSE document[key]]

\* the exception build_requirement_query raises on the document, None when it returns
build_requirement_query_raises(kinds) ==
    IF kinds.application \notin {"object", "absent"} THEN "AttributeError" ELSE None

\* the document as the statements of build_requirement_query read it:
\* str(None) is the text "None"
SeenByBuildRequirementQuery(document, kinds) ==
    [key \in DOMAIN document |->
        IF key = "application" /\ kinds.type = "null"
        THEN [type |-> StrOfNone, otherSubtype |-> document[key].otherSubtype]
        ELSE IF key = "additionalDetails" /\ kinds.additionalDetails = "null" THEN StrOfNone
        ELSE document[key]]

RowsJson == {preprocess_data(RawRow(Gateway, 1)), preprocess_data(RawRow(Blank, 1))}

InitJson ==
    \E row \in RowsJson, kinds \in KindsJson, seed \in 0..(HashSeeds - 1) :
        /\ cc_args = <<[product_series |-> row, requirements_json |-> DocumentJson(kinds),
                        kinds |-> kinds]>>
        /\ cc_result = <<>>
        /\ hashseed = seed
        /\ Constructed(<<>>, NoFeatures, None, FALSE)
        /\ ApiImported

JsonFrame ==
    UNCHANGED <<products_df, model, hashseed, pc, requirements_json, top_n, top_n_given,
                index, hard_constraint_results, requirement_query_str, query_embedding,
                recommendation_data, ranked_products, output_recommendations, calls, encoded,
                runs, prev, cc_args, api_vars>>

\* check_constraints(product_row, requirements_json) on the parsed document
CheckConstraintsJson ==
    /\ cc_args # <<>>
    /\ \A k \in 1..Len(cc_result) : cc_result[k].call # "check_constraints"
    /\ LET raised == check_constraints_raises(cc_args[1].kinds)
       IN  cc_result' = Append(cc_result,
               [call |-> "check_constraints", raised |-> raised,
                returned |->
                    IF raised # None THEN <<>>
                    ELSE <<check_constraints(
                              cc_args[1].product_series,
                              SeenByCheckConstraints(cc_args[1].requirements_json,
                                                     cc_args[1].kinds),
                              hashseed)>>])
    /\ JsonFrame

\* build_requirement_query(requirements_json) on the parsed document
BuildRequirementQueryJson ==
    /\ cc_args # <<>>
    /\ \A k \in 1..Len(cc_result) : cc_result[k].call # "build_requirement_query"
    /\ LET raised == build_requirement_query_raises(cc_args[1].kinds)
       IN  cc_result' = Append(cc_result,
               [call |-> "build_requirement_query", raised |-> raised,
                returned |->
                    IF raised # None THEN <<>>
                    ELSE <<build_requirement_query(
                              SeenByBuildRequirementQuery(cc_args[1].requirements_json,
                                                          cc_args[1].kinds))>>])
    /\ JsonFrame

NextJson ==
    \/ CheckConstraintsJson
    \/ BuildRequirementQueryJson

SpecJson == InitJson /\ [][NextJson]_vars

(***************************************************************************)
(* api_main.py: the startup event and the /recommend and /health handlers. *)
(* The handlers run one at a time on the event loop.                       *)
(***************************************************************************)
\* the ways the steps of startup_event before the construction can end
StartupSteps == {"files_missing", "load_failed", "preprocess_failed", "loaded"}

\* startup_event ends without a recommender: the message is set
StartupFails(outcome, message) ==
    /\ startup' = outcome
    /\ initialization_error_message' = message
    /\ UNCHANGED <<recommender_instance, products_df, model, encoded>>

\* startup_event; construction_raises: ProductRecommender(...) throws
startup_event(step, catalog, the_model, raises, construction_raises) ==
    /\ startup = "pending"
    /\ IF step = "files_missing"
       THEN StartupFails("files_missing",
                         "Critical error during recommender initialization: file not found")
       ELSE IF step = "load_failed"
       THEN StartupFails("load_failed", "Failed to load data via DataLoader.")
       ELSE IF step = "preprocess_failed"
       THEN StartupFails("preprocess_failed", "Failed to preprocess data via DataLoader.")
       ELSE IF catalog = <<>>
       THEN StartupFails("products_empty", "Product data is empty after loading/preprocessing.")
       ELSE IF construction_raises
       THEN StartupFails("construction_raised",
                         "Critical error during recommender initialization: exception")
       ELSE /\ products_df' = precompute_product_data(
                                  [i \in 1..Len(catalog) |-> preprocess_data(RawRow(catalog[i], i))],
                                  OneFeature, the_model, raises)
            /\ encoded' = precompute_encodes(
                              [i \in 1..Len(catalog) |-> preprocess_data(RawRow(catalog[i], i))],
                              OneFeature, the_model)
            /\ model' = the_model
            /\ recommender_instance' = "ProductRecommender"
            /\ startup' = "initialized"
            /\ UNCHANGED initialization_error_message
    /\ UNCHANGED <<hashseed, pc, requirements_json, top_n, top_n_given, index,
                   hard_constraint_results, requirement_query_str, query_embedding,
                   recommendation_data, ranked_products, output_recommendations, calls,
                   runs, prev, cc_args, cc_result, response>>

Startup ==
    \E step \in StartupSteps, catalog \in CatalogsOver(ProductKinds, MaxCatalog),
       the_model \in {"loaded", None}, raises \in BOOLEAN, construction_raises \in BOOLEAN :
        startup_event(step, catalog, the_model, raises, construction_raises)

\* an HTTP response
Response(endpoint, status_code, detail, recommendations) ==
    <<[endpoint |-> endpoint, status_code |-> status_code, detail |-> detail,
       recommendations |-> recommendations]>>

\* a handler that answers at once
Answer(endpoint, status_code, detail) ==
    /\ response' = Response(endpoint, status_code, detail, <<>>)
    /\ UNCHANGED <<products_df, model, hashseed, pc, requirements_json, top_n, top_n_given,
                   index, hard_constraint_results, requirement_query_str, query_embedding,
                   recommendation_data, ranked_products, output_recommendations, calls, encoded,
                   runs, prev, cc_args, cc_result, recommender_instance,
                   initialization_error_message, startup>>

\* mutant: a service that is not ready answers with an empty list
get_recommendations_api_empty(requirements) ==
    /\ startup # "pending"
    /\ pc = "idle"
    /\ IF initialization_error_message # None \/ recommender_instance = None
       THEN Answer("/recommend", 200, "")
       ELSE IF DOMAIN requirements = {}
       THEN Answer("/recommend", 400, "Empty or invalid requirements payload.")
       ELSE Call(requirements, 3, TRUE)

\* POST /recommend, up to the call of recommend(client_requirements_json, top_n=3)
get_recommendations_api(requirements) ==
    /\ startup # "pending"
    /\ pc = "idle"
    /\ IF initialization_error_message # None
       THEN Answer("/recommend", 503, "Recommender service not ready")
       ELSE IF recommender_instance = None
       THEN Answer("/recommend", 503, "Recommender service is unavailable.")
       ELSE IF DOMAIN requirements = {}
       THEN Answer("/recommend", 400, "Empty or invalid requirements payload.")
       ELSE Call(requirements, 3, TRUE)

PostRecommend == \E requirements \in Requirements : get_recommendations_api(requirements)

\* POST /recommend, from the return of recommend: the list is the response
ReturnRecommendations ==
    /\ startup # "pending"
    /\ pc = "DONE"
    /\ response' = Response("/recommend", 200, "", output_recommendations)
    /\ pc' = "idle"
    /\ requirements_json' = EmptyDict
    /\ top_n' = 0
    /\ top_n_given' = FALSE
    /\ index' = 0
    /\ hard_constraint_results' = <<>>
    /\ requirement_query_str' = <<>>
    /\ query_embedding' = NoneValue
    /\ recommendation_data' = <<>>
    /\ ranked_products' = <<>>
    /\ output_recommendations' = <<>>
    /\ calls' = [get_embeddings |-> 0, encode |-> 0, calculate_similarity |-> 0]
    /\ encoded' = <<>>
    /\ UNCHANGED <<products_df, model, hashseed, runs, prev, cc_args, cc_result,
                   recommender_instance, initialization_error_message, startup>>

\* GET /health
health_check ==
    /\ startup # "pending"
    /\ pc = "idle"
    /\ IF initialization_error_message # None \/ recommender_instance = None
       THEN Answer("/health", 200, "unhealthy")
       ELSE Answer("/health", 200, "healthy")

InitApi ==
    \E seed \in 0..(HashSeeds - 1) :
        /\ hashseed = seed
        /\ Constructed(<<>>, NoFeatures, None, FALSE)
        /\ cc_args = <<>>
        /\ cc_result = <<>>
        /\ ApiImported

NextApi ==
    \/ Startup
    \/ PostRecommend
    \/ health_check
    \/ Filter
    \/ FilterEnd
    \/ Embedding
    \/ Scoring
    \/ Ranking
    \/ ReturnRecommendations

SpecApi == InitApi /\ [][NextApi]_vars

(***************************************************************************)
(* A second specification: product tables of up to MaxWide rows, so that   *)
(* more products pass than any top_n in use.  A table is a block of Module *)
(* rows followed by a block of Gateway rows.                               *)
(***************************************************************************)
WideCatalogs(n) ==
    UNION {{[i \in 1..len |-> IF i <= k THEN Module ELSE Gateway] : k \in 0..len} : len \in 0..n}

InitWide ==
    \E catalog \in WideCatalogs(MaxWide),
       the_model \in {"loaded", None}, seed \in 0..(HashSeeds - 1) :
        /\ hashseed = seed
        /\ Constructed(catalog, NoFeatures, the_model, FALSE)
        /\ cc_args = <<>>
        /\ cc_result = <<>>
        /\ ApiImported

SpecWide == InitWide /\ [][Next]_vars

(***************************************************************************)
(* A third specification: recommend on a product table whose embedding     *)
(* column holds, row by row, the cached vector, a zero-length array or     *)
(* None: the cases the filter `emb is not None and emb.size > 0' separates.*)
(***************************************************************************)
EmbeddingCases == {"cached", "empty", "missing"}

WithEmbeddings(table, column) ==
    [i \in 1..Len(table) |->
        [table[i] EXCEPT !.embedding =
            IF column[i] = "cached" THEN @
            ELSE IF column[i] = "empty" THEN ndarray(<<>>)
            ELSE NoneValue]]

InitMixed ==
    \E catalog \in CatalogsOver({Gateway, Module}, MaxCatalog), seed \in 0..(HashSeeds - 1) :
        \E column \in [1..Len(catalog) -> EmbeddingCases] :
            /\ hashseed = seed
            /\ products_df = WithEmbeddings(
                                precompute_product_data(
                                    [i \in 1..Len(catalog) |-> preprocess_data(RawRow(catalog[i], i))],
                                    OneFeature, "loaded", FALSE),
                                column)
            /\ encoded = precompute_encodes(
                            [i \in 1..Len(catalog) |-> preprocess_data(RawRow(catalog[i], i))],
                            OneFeature, "loaded")
            /\ model = "loaded"
            /\ Idle
            /\ runs = 0
            /\ prev = <<>>
            /\ cc_args = <<>>
            /\ cc_result = <<>>
            /\ ApiImported

SpecMixed == InitMixed /\ [][Next]_vars

(***************************************************************************)
(* Properties of recommend.                                                *)
(***************************************************************************)
\* the position in the product table of the row with this Product_ID
CatalogPos(product_id) ==
    CHOOSE i \in 1..Len(products_df) : products_df[i].Product_ID = product_id

\* the rows of the product table that pass check_constraints for the request
PassingRows ==
    {i \in 1..Len(products_df) :
        check_constraints(products_df[i], requirements_json, hashseed).passed}

\* the request took one of the branches that skip the similarity computation
DegradedRequest ==
    \/ model = None
    \/ strip(build_requirement_query(requirements_json)) = <<>>
    \/ query_embedding = NoneValue

Min(a, b) == IF a < b THEN a ELSE b

\* C1: the returned list is ordered by Final_Score descending, and records of
\* equal Final_Score are in the order of their products in the catalog.
C1_RankedDescendingStable ==
    pc = "DONE" =>
        \A j, k \in 1..Len(output_recommendations) :
            j < k =>
                /\ output_recommendations[j].Final_Score >= output_recommendations[k].Final_Score
                /\ (output_recommendations[j].Final_Score = output_recommendations[k].Final_Score
                    => CatalogPos(output_recommendations[j].Product_ID)
                         < CatalogPos(output_recommendations[k].Product_ID))

\* C1 witness: an answer of three records in which a product placed later in
\* the catalog is ranked first and two records tie.
C1_Witness ==
    /\ pc = "DONE"
    /\ Len(output_recommendations) = 3
    /\ CatalogPos(output_recommendations[1].Product_ID) = 3
    /\ output_recommendations[2].Final_Score = output_recommendations[3].Final_Score
    /\ output_recommendations[1].Final_Score > output_recommendations[2].Final_Score

\* C2: the same requirement run again on the same catalog, with the same
\* answer of the embedding provider, returns the identical list, whatever the
\* iteration order of the sets in check_constraints.
C2_SameOutputOnRerun ==
    (pc = "DONE" /\ runs = 1 /\ query_embedding = prev[1].query_embedding)
        => output_recommendations = prev[1].output_recommendations

\* C3: when top_n is at least the number of passing products, the returned
\* Product_IDs are exactly the products that passed, each once.
C3_NoCandidateEliminated ==
    (pc = "DONE" /\ top_n >= Cardinality(PassingRows)) =>
        /\ {output_recommendations[k].Product_ID : k \in 1..Len(output_recommendations)}
             = {products_df[i].Product_ID : i \in PassingRows}
        /\ Len(output_recommendations) = Cardinality(PassingRows)

\* C3 witness: similarities were computed, some product failed the filter, and
\* a returned product has no usable embedding.
C3_Witness ==
    /\ pc = "DONE"
    /\ top_n >= Cardinality(PassingRows)
    /\ ~DegradedRequest
    /\ Cardinality(PassingRows) < Len(products_df)
    /\ \E k \in 1..Len(output_recommendations) :
          products_df[CatalogPos(output_recommendations[k].Product_ID)].embedding.data = <<>>

\* C4: for top_n >= 0 the answer is the first min(top_n, candidates) records
\* of the full ranking.
C4_TopNTruncation ==
    (pc = "DONE" /\ top_n >= 0) =>
        /\ Len(output_recommendations) = Min(top_n, Cardinality(PassingRows))
        /\ Len(ranked_products) = Len(hard_constraint_results)
        /\ \A k \in 1..Len(output_recommendations) :
              output_recommendations[k] = OutputRecord(ranked_products[k])
        /\ (top_n = 0 => output_recommendations = <<>>)

\* C4 witness: more candidates than top_n, and exactly top_n records returned.
C4_Witness ==
    /\ pc = "DONE"
    /\ top_n >= 1
    /\ top_n < Cardinality(PassingRows)
    /\ Len(output_recommendations) = top_n

\* C5: the answer has at most top_n records, for every integer top_n.
C5_LengthAtMostTopN ==
    pc = "DONE" => Len(output_recommendations) <= top_n

\* C6 as claimed: without a top_n from the caller the answer has at most 3 records.
C6_DefaultIsThree ==
    (pc = "DONE" /\ ~top_n_given) => Len(output_recommendations) <= 3

\* C6 amended: without a top_n from the caller the answer has the first 5
\* records of the ranking, or all of them when fewer products passed.
C6_DefaultIsFive ==
    (pc = "DONE" /\ ~top_n_given) =>
        Len(output_recommendations) = Min(5, Cardinality(PassingRows))

\* C6 witness: more than 5 products passed and 5 were returned.
C6_Witness ==
    /\ pc = "DONE"
    /\ ~top_n_given
    /\ Cardinality(PassingRows) > 5
    /\ Len(output_recommendations) = 5

\* C7: in degraded mode every candidate has similarity 0.0, final score equal
\* to its rule score and a similarity note after its rule messages; the
\* answer is sorted by Final_Score and truncated to top_n.
C7_DegradedMode ==
    DegradedRequest =>
        /\ (pc \in {"RANKING", "DONE"} =>
              /\ {recommendation_data[k].product_id : k \in 1..Len(recommendation_data)}
                   = {products_df[i].Product_ID : i \in PassingRows}
              /\ \A k \in 1..Len(recommendation_data) :
                    LET i == CatalogPos(recommendation_data[k].product_id)
                        r == check_constraints(products_df[i], requirements_json, hashseed)
                        n == Len(recommendation_data[k].explanation)
                    IN  /\ recommendation_data[k].similarity_score = 0
                        /\ recommendation_data[k].final_score = r.score * 100000
                        /\ SubSeq(recommendation_data[k].explanation, 1, n - 1) = r.explanation
                        /\ recommendation_data[k].explanation[n] \in
                              {<<"Text Similarity: 0.00 (Query empty or model issue)">>,
                               <<"Text Similarity: 0.00 (Query embedding failed)">>})
        /\ (pc = "DONE" =>
              /\ \A k \in 1..Len(output_recommendations) :
                    /\ output_recommendations[k].Text_Similarity = 0
                    /\ output_recommendations[k].Final_Score =
                          check_constraints(
                              products_df[CatalogPos(output_recommendations[k].Product_ID)],
                              requirements_json, hashseed).score * 100000
                    /\ (k > 1 => output_recommendations[k - 1].Final_Score
                                    >= output_recommendations[k].Final_Score)
              /\ (top_n >= 0 =>
                    Len(output_recommendations) = Min(top_n, Cardinality(PassingRows))))

\* C7 witness: the provider is loaded and the query is not empty, but embedding
\* the query failed; the answer is a truncated ranking by rule score.
C7_Witness ==
    /\ pc = "DONE"
    /\ model # None
    /\ requirement_query_str # <<>>
    /\ query_embedding = NoneValue
    /\ top_n >= 1
    /\ Cardinality(PassingRows) > top_n
    /\ Len(output_recommendations) = top_n
    /\ \E k \in 1..Len(ranked_products) :
          ranked_products[k].final_score # ranked_products[1].final_score

\* C8: with an empty catalog or no passing product the request ends with an
\* empty list and does no embedding work.
C8_HardEarlyExit ==
    (pc # "idle" /\ (products_df = <<>> \/ PassingRows = {})) =>
        /\ pc \in {"FILTERING", "DONE"}
        /\ calls = [get_embeddings |-> 0, encode |-> 0, calculate_similarity |-> 0]
        /\ (pc = "DONE" => output_recommendations = <<>>)

\* C8 witness: a non-empty catalog, a loaded provider and a non-empty query,
\* yet no product passed and the request is done.
C8_Witness ==
    /\ pc = "DONE"
    /\ products_df # <<>>
    /\ PassingRows = {}
    /\ model # None
    /\ build_requirement_query(requirements_json) # <<>>
    /\ output_recommendations = <<>>

(***************************************************************************)
(* Properties of check_constraints.                                        *)
(***************************************************************************)
\* C9: a requirement with no region, deployment, connectivity or power section
\* passes every product with score 0 and all four outcomes null.
C9_AllAbsentPasses ==
    (cc_result # <<>>
     /\ DOMAIN cc_args[1].requirements_json
          \cap {"region", "deployment", "connectivity", "power"} = {}) =>
        /\ cc_result[1].passed
        /\ cc_result[1].score = 0
        /\ cc_result[1].details =
              [frequency_band |-> None, environment |-> None, connectivity |-> None,
               power |-> None]

\* C9 witness: such a requirement evaluated on a product with every field filled.
C9_Witness ==
    /\ cc_result # <<>>
    /\ DOMAIN cc_args[1].requirements_json = {}
    /\ cc_args[1].product_series.Region_Support_List # <<>>
    /\ cc_args[1].product_series.Deployment_Environment_Lower # <<>>
    /\ cc_args[1].product_series.Connectivity_List # <<>>
    /\ cc_args[1].product_series.Notes # <<>>
    /\ cc_result[1].passed

\* the band token of a requirement document, "" when there is none
BandToken(req) ==
    IF "region" \in DOMAIN req /\ "frequencyBand" \in DOMAIN req["region"]
    THEN req["region"].frequencyBand ELSE <<>>

\* C10: with a band token the frequency_band outcome is true iff the
\* lower-cased token is an element of the product's region list, else false;
\* without one it is null, adds no score and does not fail the product.
C10_FrequencyBand ==
    cc_result # <<>> =>
        LET row   == cc_args[1].product_series
            req   == cc_args[1].requirements_json
            token == BandToken(req)
            fb    == cc_result[1].details.frequency_band
            rest  == DeploymentEnvironment(row, req).score + Connectivity(row, req, hashseed).score
                     + Power(row, req, hashseed).score
        IN  /\ token # <<>> =>
                /\ fb \in {"True", "False"}
                /\ fb = "True" <=> \E i \in 1..Len(row.Region_Support_List) :
                                       row.Region_Support_List[i] = lower(token)
                /\ cc_result[1].score = rest + (IF fb = "True" THEN 5 ELSE 0)
                /\ (fb = "False" => ~cc_result[1].passed)
            /\ token = <<>> =>
                /\ fb = None
                /\ cc_result[1].score = rest
                /\ cc_result[1].passed <=>
                      /\ cc_result[1].details.environment # "False"
                      /\ cc_result[1].details.connectivity # "False"
                      /\ cc_result[1].details.power # "False"

\* C10 witness: an upper-case token matched against the lower-cased list, and
\* a token that is a proper prefix of a list element rejected.
C10_Witness ==
    /\ cc_result # <<>>
    /\ BandToken(cc_args[1].requirements_json) = <<"U","S","9","1","5">>
    /\ cc_args[1].product_series.Region_Support_List
         = <<<<"u","s","9","1","5">>, <<"e","u","8","6","8">>>>
    /\ cc_result[1].details.frequency_band = "True"

\* the environment of a requirement document, "" when there is none
EnvToken(req) ==
    IF "deployment" \in DOMAIN req /\ "environment" \in DOMAIN req["deployment"]
    THEN req["deployment"].environment ELSE <<>>

\* C11: for a specified requirement environment r and product environment p,
\* both lower-cased, the environment outcome is true iff p = r, or r is "both"
\* and p is indoor, outdoor, both or empty, or p is "both" and r is indoor or
\* outdoor; otherwise it is false and the product fails.
C11_EnvironmentCompatibility ==
    cc_result # <<>> =>
        LET r == lower(EnvToken(cc_args[1].requirements_json))
            p == lower(cc_args[1].product_series.Deployment_Environment)
            indoor  == <<"i","n","d","o","o","r">>
            outdoor == <<"o","u","t","d","o","o","r">>
            both    == <<"b","o","t","h">>
            compatible ==
                \/ p = r
                \/ r = both /\ p \in {indoor, outdoor, both, <<>>}
                \/ p = both /\ r \in {indoor, outdoor}
            env == cc_result[1].details.environment
        IN  r # <<>> =>
                /\ env \in {"True", "False"}
                /\ env = "True" <=> compatible
                /\ (env = "False" => ~cc_result[1].passed)

\* C11 witness: the requirement asks for both environments and the product
\* names none; the outcome is true.
C11_Witness ==
    /\ cc_result # <<>>
    /\ lower(EnvToken(cc_args[1].requirements_json)) = <<"b","o","t","h">>
    /\ cc_args[1].product_series.Deployment_Environment = <<>>
    /\ cc_result[1].details.environment = "True"

\* the connectivity tokens a requirement document requests: the lower-cased
\* ids of every category of connectivity.elaborate, as a set
RequestedTokens(req) ==
    IF "connectivity" \in DOMAIN req /\ "elaborate" \in DOMAIN req["connectivity"]
    THEN LET elaborate == req["connectivity"].elaborate
         IN  UNION {{lower(elaborate[c][2][i]) : i \in 1..Len(elaborate[c][2])} :
                    c \in 1..Len(elaborate)}
    ELSE {}

\* the synonym keywords of a token: its table entry, or the token itself when
\* the table has no entry for it
Synonyms(token) ==
    IF token \in DOMAIN CONNECTIVITY_JSON_TO_PRODUCT_KEYWORDS
    THEN CONNECTIVITY_JSON_TO_PRODUCT_KEYWORDS[token] ELSE <<token>>

\* a token matches a product row when one of its synonyms is a substring of
\* the lower-cased connectivity text or an element of the connectivity list
TokenMatches(token, row) ==
    \E k \in 1..Len(Synonyms(token)) :
        \/ Contains(lower(row.Connectivity), Synonyms(token)[k])
        \/ \E j \in 1..Len(row.Connectivity_List) : row.Connectivity_List[j] = Synonyms(token)[k]

\* C12: when the requirement requests at least one connectivity token, the
\* connectivity outcome is true iff at least one requested token matches the
\* product, and false, failing the product, only when none matches.
C12_ConnectivityAnyToken ==
    cc_result # <<>> =>
        LET row    == cc_args[1].product_series
            tokens == RequestedTokens(cc_args[1].requirements_json)
            con    == cc_result[1].details.connectivity
        IN  tokens # {} =>
                /\ con \in {"True", "False"}
                /\ con = "True" <=> \E t \in tokens : TokenMatches(t, row)
                /\ (con = "False" => ~cc_result[1].passed)

\* C12 witness: a product with connectivity "LoRaWAN, Ethernet" and a request
\* for lorawan and ble: one of the two matches and the outcome is true.
C12_Witness ==
    /\ cc_result # <<>>
    /\ cc_args[1].product_series.Connectivity
         = <<"L","o","R","a","W","A","N",","," ","E","t","h","e","r","n","e","t">>
    /\ RequestedTokens(cc_args[1].requirements_json)
         = {<<"l","o","r","a","w","a","n">>, <<"b","l","e">>}
    /\ ~TokenMatches(<<"b","l","e">>, cc_args[1].product_series)
    /\ cc_result[1].details.connectivity = "True"

\* the power labels a requirement document requests
PowerLabels(req) == IF "power" \in DOMAIN req THEN req["power"] ELSE <<>>

\* a requested label matches a product row when one of its keyword phrases
\* occurs as a whole word in the lower-cased description and notes
LabelMatches(label, row) ==
    /\ label \in DOMAIN POWER_KEYWORD_MAPPING
    /\ \E k \in 1..Len(POWER_KEYWORD_MAPPING[label]) :
          ReSearchWord(POWER_KEYWORD_MAPPING[label][k],
                       lower(row.Description_And_Application \o <<" ">> \o row.Notes))

\* the labels of the request that match the row
MatchingLabels(req, row) ==
    {i \in 1..Len(PowerLabels(req)) : LabelMatches(PowerLabels(req)[i], row)}

\* C13: the power dimension adds the power_keyword weight to the score once
\* when some requested label has a matching keyword phrase and nothing
\* otherwise, however many labels or phrases match.
C13_PowerScoredOnce ==
    cc_result # <<>> =>
        LET row  == cc_args[1].product_series
            req  == cc_args[1].requirements_json
            rest == FrequencyBand(row, req).score + DeploymentEnvironment(row, req).score
                    + Connectivity(row, req, hashseed).score
        IN  cc_result[1].score - rest =
                IF MatchingLabels(req, row) # {} THEN WEIGHTS.power_keyword ELSE 0

\* C13 witness: two requested labels both match the product, and the power
\* dimension added one unit.
C13_Witness ==
    /\ cc_result # <<>>
    /\ Cardinality(MatchingLabels(cc_args[1].requirements_json, cc_args[1].product_series)) = 2
    /\ cc_result[1].details.power = "True"
    /\ cc_result[1].score
         = FrequencyBand(cc_args[1].product_series, cc_args[1].requirements_json).score
           + DeploymentEnvironment(cc_args[1].product_series, cc_args[1].requirements_json).score
           + Connectivity(cc_args[1].product_series, cc_args[1].requirements_json, hashseed).score
           + 1

\* C14: neither check_constraints nor build_requirement_query raises on a
\* member that is null or of another type than expected; such a member is
\* treated as unspecified: its dimension has outcome null and adds no score,
\* and it contributes nothing to the query.
C14_MalformedIsUnspecified ==
    \A k \in 1..Len(cc_result) :
        LET kinds == cc_args[1].kinds
            row   == cc_args[1].product_series
        IN  /\ cc_result[k].raised = None
            /\ cc_result[k].call = "check_constraints" =>
                  /\ (kinds.region # "object" =>
                        cc_result[k].returned[1].details.frequency_band = None)
                  /\ (kinds.power \notin {"list"} =>
                        cc_result[k].returned[1].details.power = None)
            /\ cc_result[k].call = "build_requirement_query" =>
                  (kinds.additionalDetails # "str" /\ kinds.type = "str" =>
                        cc_result[k].returned[1] = <<"t","r","a","c","k","i","n","g">>)

\* C15: after a failed startup every /recommend request is answered 503 and
\* never with a list; after any startup exactly one of the recommender
\* instance and the initialization error message is set; and /health reports
\* healthy iff /recommend is served.
C15_NotReadyIsRefused ==
    startup # "pending" =>
        /\ (recommender_instance # None) # (initialization_error_message # None)
        /\ (startup = "initialized") = (recommender_instance # None)
        /\ (startup # "initialized" => pc = "idle")
        /\ \A k \in 1..Len(response) :
              /\ response[k].endpoint = "/recommend" =>
                    /\ (response[k].status_code = 503) = (startup # "initialized")
                    /\ (startup # "initialized" => response[k].recommendations = <<>>)
              /\ response[k].endpoint = "/health" =>
                    (response[k].detail = "healthy") = (startup = "initialized")

\* C15 witness: the construction of the recommender raised at startup, and a
\* /recommend request was answered 503.
C15_Witness ==
    /\ startup = "construction_raised"
    /\ response # <<>>
    /\ response[1].endpoint = "/recommend"
    /\ response[1].status_code = 503

(***************************************************************************)
(* Properties of the pipeline of recommend.                                *)
(***************************************************************************)
\* the steps a request may take from one pipeline state to another
PipelineStep ==
    \/ pc = "idle" /\ pc' \in {"FILTERING", "DONE"}
    \/ pc = "FILTERING" /\ pc' \in {"EMBEDDING", "DONE"}
    \/ pc = "EMBEDDING" /\ pc' = "SCORING"
    \/ pc = "SCORING" /\ pc' = "RANKING"
    \/ pc = "RANKING" /\ pc' = "DONE"
    \/ pc = "DONE" /\ pc' = "idle"

\* what each pipeline state has and has not yet computed
PipelineOrder ==
    /\ (pc \in {"EMBEDDING", "SCORING", "RANKING"} =>
          /\ index = Len(products_df) + 1
          /\ {hard_constraint_results[k].index : k \in 1..Len(hard_constraint_results)}
               = PassingRows)
    /\ (pc \in {"idle", "FILTERING", "EMBEDDING"} =>
          /\ requirement_query_str = <<>>
          /\ query_embedding = NoneValue
          /\ calls = [get_embeddings |-> 0, encode |-> 0, calculate_similarity |-> 0])
    /\ (calls.calculate_similarity > 0 =>
          /\ pc \in {"RANKING", "DONE"}
          /\ calls.get_embeddings = 1
          /\ query_embedding # NoneValue)
    /\ (pc \in {"idle", "FILTERING", "EMBEDDING", "SCORING"} => recommendation_data = <<>>)
    /\ (pc = "RANKING" => Len(recommendation_data) = Len(hard_constraint_results))
    /\ (pc # "DONE" => ranked_products = <<>> /\ output_recommendations = <<>>)
    /\ (pc = "DONE" =>
          /\ Len(ranked_products) = Len(recommendation_data)
          /\ \A k \in 1..Len(ranked_products) :
                \E j \in 1..Len(recommendation_data) : recommendation_data[j] = ranked_products[k]
          /\ \A k \in 1..(Len(ranked_products) - 1) :
                ranked_products[k].final_score >= ranked_products[k + 1].final_score
          /\ Len(output_recommendations) <= Len(ranked_products)
          /\ \A k \in 1..Len(output_recommendations) :
                output_recommendations[k] = OutputRecord(ranked_products[k]))

\* C16: a request moves through FILTERING, EMBEDDING, SCORING, RANKING and
\* DONE in that order and never back: every product has been checked before
\* the query is built or embedded, the query embedding exists before a
\* similarity is computed, every candidate is scored before the sort, and the
\* sort comes before truncation and output.
C16_PipelineInOrder == [](PipelineOrder) /\ [][pc' # pc => PipelineStep]_vars

\* C16 witness: a request that computed similarities is done, with a product
\* that failed the filter and a non-empty answer.
C16_Witness ==
    /\ pc = "DONE"
    /\ calls.calculate_similarity = 1
    /\ Cardinality(PassingRows) < Len(products_df)
    /\ output_recommendations # <<>>

\* the request took the branch that computes similarities
ScoredRequest ==
    /\ model # None
    /\ strip(build_requirement_query(requirements_json)) # <<>>
    /\ query_embedding # NoneValue
    /\ Len(query_embedding.data) > 0

\* the cosine similarity of the query and the cached embedding of the product
\* at row i of the table, 0 when the row has no usable embedding
OwnSimilarity(i) ==
    IF Len(products_df[i].embedding.data) > 0
    THEN cos_sim(query_embedding.data[1], products_df[i].embedding)
    ELSE 0

\* C17: in the branch that computes similarities, the final score of every
\* candidate is the rule score check_constraints gave it plus 10 times the
\* similarity of its own embedding to the query, rounded to two decimals; the
\* recorded rule score is that of check_constraints and the recorded
\* similarity is the same similarity rounded to four decimals.
C17_FinalScoreFormula ==
    (pc \in {"RANKING", "DONE"} /\ ScoredRequest) =>
        \A k \in 1..Len(recommendation_data) :
            LET i == CatalogPos(recommendation_data[k].product_id)
                rule == check_constraints(products_df[i], requirements_json, hashseed).score
            IN  /\ recommendation_data[k].hard_constraint_score = rule
                /\ recommendation_data[k].similarity_score = round(OwnSimilarity(i), 10)
                /\ recommendation_data[k].final_score
                     = round(rule * 100000 + 10 * OwnSimilarity(i), 1000)

\* C17 witness: a ranked record with a positive rule score and a similarity
\* strictly between 0 and 1, whose final score exceeds its rule score.
C17_Witness ==
    /\ pc = "DONE"
    /\ ScoredRequest
    /\ \E k \in 1..Len(ranked_products) :
          /\ ranked_products[k].hard_constraint_score > 0
          /\ ranked_products[k].similarity_score > 0
          /\ ranked_products[k].similarity_score < 100000
          /\ ranked_products[k].final_score > ranked_products[k].hard_constraint_score * 100000

\* C18: in the branch that computes similarities every passing product gets
\* a record; a candidate whose cached embedding is missing or zero-length has
\* similarity exactly 0.0, and a candidate with a usable embedding has the
\* similarity of its own embedding to the query, whatever the mix of usable
\* and unusable embeddings among the candidates.
C18_PositionalReinsertion ==
    (pc \in {"RANKING", "DONE"} /\ ScoredRequest) =>
        /\ {recommendation_data[k].product_id : k \in 1..Len(recommendation_data)}
             = {products_df[i].Product_ID : i \in PassingRows}
        /\ \A k \in 1..Len(recommendation_data) :
              LET i == CatalogPos(recommendation_data[k].product_id)
              IN  IF products_df[i].embedding = NoneValue
                     \/ products_df[i].embedding.data = <<>>
                  THEN recommendation_data[k].similarity_score = 0
                  ELSE recommendation_data[k].similarity_score
                         = round(cos_sim(query_embedding.data[1], products_df[i].embedding), 10)

\* C18 witness: the first candidate has no usable embedding, a later one has,
\* and the later one carries a similarity that is not 0.
C18_Witness ==
    /\ pc = "DONE"
    /\ ScoredRequest
    /\ Len(recommendation_data) >= 2
    /\ products_df[CatalogPos(recommendation_data[1].product_id)].embedding.data = <<>>
    /\ recommendation_data[1].similarity_score = 0
    /\ \E k \in 2..Len(recommendation_data) :
          /\ products_df[CatalogPos(recommendation_data[k].product_id)].embedding.data # <<>>
          /\ recommendation_data[k].similarity_score # 0

\* the number of ids a requirement document lists over all categories
RequestedIdCount(req) ==
    IF "connectivity" \in DOMAIN req /\ "elaborate" \in DOMAIN req["connectivity"]
    THEN Len(FlattenLower(req["connectivity"].elaborate))
    ELSE 0

\* the requested tokens that match the row
MatchedTokens(req, row) == {t \in RequestedTokens(req) : TokenMatches(t, row)}

\* the list has no element twice and its elements are those of the set
ListsOnce(list, set) ==
    /\ Len(list) = Cardinality(set)
    /\ {list[i] : i \in 1..Len(list)} = set

\* C19: the connectivity dimension adds the connectivity_option weight once
\* per distinct requested token that matched, the tokens being lower-cased,
\* flattened over the categories and deduplicated; its message lists every
\* matched token once on success and the requested tokens on failure.
C19_ConnectivityScoring ==
    cc_result # <<>> =>
        LET row     == cc_args[1].product_series
            req     == cc_args[1].requirements_json
            matched == MatchedTokens(req, row)
            rest    == FrequencyBand(row, req).score + DeploymentEnvironment(row, req).score
                       + Power(row, req, hashseed).score
            message == cc_result[1].explanation[3]
        IN  /\ cc_result[1].score - rest = 2 * Cardinality(matched)
            /\ (matched # {} =>
                  /\ message[1] = "Matched connectivity options: "
                  /\ ListsOnce(message[2], {upper(t) : t \in matched}))
            /\ (RequestedTokens(req) # {} /\ matched = {} =>
                  /\ message[1] = "FAILED connectivity: No product match for user required options: "
                  /\ ListsOnce(message[2], RequestedTokens(req)))

\* C19 witness: ble is requested in two categories and in two spellings, it
\* matches the product, and it is scored and listed once.
C19_Witness ==
    /\ cc_result # <<>>
    /\ RequestedIdCount(cc_args[1].requirements_json) = 3
    /\ MatchedTokens(cc_args[1].requirements_json, cc_args[1].product_series)
         = {<<"b","l","e">>}
    /\ cc_result[1].details.connectivity = "True"
    /\ cc_result[1].explanation[3][2] = <<<<"B","L","E">>>>

\* the first piece of the message a dimension appends for each outcome
MessageHead(dimension, outcome) ==
    IF dimension = "frequency_band"
    THEN (IF outcome = "True" THEN "Matched frequency band: "
          ELSE IF outcome = "False" THEN "FAILED frequency band: Product supports "
          ELSE "Frequency band not specified by user.")
    ELSE IF dimension = "environment"
    THEN (IF outcome = "True" THEN "Matched environment: User '"
          ELSE IF outcome = "False" THEN "FAILED environment: Product is '"
          ELSE "Deployment environment not specified by user.")
    ELSE IF dimension = "connectivity"
    THEN (IF outcome = "True" THEN "Matched connectivity options: "
          ELSE IF outcome = "False"
          THEN "FAILED connectivity: No product match for user required options: "
          ELSE "Connectivity not specified by user.")
    ELSE (IF outcome = "True" THEN "Power requirement(s) met: Found "
          ELSE IF outcome = "False"
          THEN "FAILED power: No product match for user required power options ("
          ELSE "Power requirements not specified by user.")

Dimensions == <<"frequency_band", "environment", "connectivity", "power">>

\* C20: check_constraints evaluates all four dimensions whatever the
\* earlier ones gave: a dimension has outcome null exactly when the
\* requirement does not specify it, the explanation has one message per
\* dimension in the order frequency band, environment, connectivity, power,
\* passed is false iff some outcome is false, and the score is the sum of the
\* contributions of the dimensions whose outcome is true.
C20_NoShortCircuit ==
    cc_result # <<>> =>
        LET row     == cc_args[1].product_series
            req     == cc_args[1].requirements_json
            details == cc_result[1].details
        IN  /\ DOMAIN details = {"frequency_band", "environment", "connectivity", "power"}
            /\ \A d \in DOMAIN details : details[d] \in {"True", "False", None}
            /\ (details.frequency_band = None) = (BandToken(req) = <<>>)
            /\ (details.environment = None) = (EnvToken(req) = <<>>)
            /\ (details.connectivity = None) = (RequestedTokens(req) = {})
            /\ (details.power = None) = (PowerLabels(req) = <<>>)
            /\ Len(cc_result[1].explanation) = 4
            /\ \A k \in 1..4 :
                  cc_result[1].explanation[k][1] = MessageHead(Dimensions[k], details[Dimensions[k]])
            /\ cc_result[1].passed = (\A d \in DOMAIN details : details[d] # "False")
            /\ cc_result[1].score =
                  (IF details.frequency_band = "True" THEN 5 ELSE 0)
                  + (IF details.environment = "True" THEN 3 ELSE 0)
                  + (IF details.connectivity = "True"
                     THEN 2 * Cardinality(MatchedTokens(req, row)) ELSE 0)
                  + (IF details.power = "True" THEN 1 ELSE 0)

\* C20 witness: the frequency band failed, yet the environment failed too,
\* connectivity and power were evaluated and matched, and their score counts.
C20_Witness ==
    /\ cc_result # <<>>
    /\ cc_result[1].details.frequency_band = "False"
    /\ cc_result[1].details.environment = "False"
    /\ cc_result[1].details.connectivity = "True"
    /\ cc_result[1].details.power = "True"
    /\ ~cc_result[1].passed
    /\ cc_result[1].score >= 3

(***************************************************************************)
(* Properties of a sequence of requests served by one process.             *)
(***************************************************************************)
\* what the filter gives on the product table for the request in hand, with
\* nothing left from an earlier request
FreshResults ==
    LET F[i \in 0..Len(products_df)] ==
            IF i = 0 THEN <<>>
            ELSE LET r == check_constraints(products_df[i], requirements_json, hashseed)
                 IN  F[i - 1] \o (IF r.passed
                                  THEN <<[index |-> i, hc_score |-> r.score,
                                          hc_details |-> r.details,
                                          hc_explanation |-> r.explanation]>>
                                  ELSE <<>>)
    IN  F[Len(products_df)]

\* the answer of a process that serves the request in hand as its first one,
\* given the same answer of the embedding provider for the query
FreshAnswer ==
    LET data ==
            IF strip(build_requirement_query(requirements_json)) = <<>> \/ model = None
            THEN DegradedData(FreshResults, "Text Similarity: 0.00 (Query empty or model issue)")
            ELSE IF query_embedding = NoneValue \/ Len(query_embedding.data) = 0
            THEN DegradedData(FreshResults, "Text Similarity: 0.00 (Query embedding failed)")
            ELSE ScoredData(FreshResults,
                            [k \in 1..Len(FreshResults) |-> OwnSimilarity(FreshResults[k].index)])
        top == SliceTo(SortByFinalScoreDesc(data), top_n)
    IN  [k \in 1..Len(top) |-> OutputRecord(top[k])]

\* the columns of the product table after initialization
TableColumns ==
    {"Product_ID", "Product_Name", "Description_And_Application", "Notes", "Connectivity",
     "Deployment_Environment", "Region_Support", "Region_Support_List",
     "Connectivity_Lower_Text", "Connectivity_List", "Deployment_Environment_Lower",
     "combined_text", "embedding"}

CatalogBatch == [i \in 1..Len(products_df) |-> products_df[i].combined_text]

\* the query text of the request in hand
QueryOfRequest == build_requirement_query(requirements_json)

\* batches of up to three empty texts
EmptyBatches == {<<>>, << <<>> >>, << <<>>, <<>> >>, << <<>>, <<>>, <<>> >>}

\* C22: embedding work is bounded.  The constructor encodes the catalog in one
\* batch (none without a provider or when every corpus is empty) and no request
\* changes the product table afterwards; a request hands the provider at most
\* one batch, holding the query text alone, and none when the query is blank,
\* the provider is missing or no product passed the hard constraints; a batch
\* of empty texts gives the empty list without the provider being invoked.
C22_EmbeddingWorkBounded ==
    /\ [](pc = "idle" /\ runs = 0 =>
            encoded = IF model # None /\ \E i \in 1..Len(products_df) : CatalogBatch[i] # <<>>
                      THEN <<CatalogBatch>> ELSE <<>>)
    /\ [](pc # "idle" =>
            /\ Len(encoded) <= 1
            /\ calls.encode = Len(encoded)
            /\ calls.get_embeddings <= 1
            /\ \A k \in 1..Len(encoded) : encoded[k] = <<QueryOfRequest>>
            /\ (\/ strip(QueryOfRequest) = <<>>
                \/ model = None
                \/ hard_constraint_results = <<>>) => encoded = <<>> /\ calls.encode = 0)
    /\ [](\A texts \in EmptyBatches, raises \in BOOLEAN :
            /\ get_embeddings("loaded", texts, raises) = pylist(<<>>)
            /\ encode_batches("loaded", texts) = <<>>)
    /\ [][products_df' = products_df]_vars

\* a request over two products whose one provider call was for its query, the
\* catalog embeddings it compares against being the constructor's
C22_Witness ==
    /\ pc = "DONE"
    /\ Len(products_df) >= 2
    /\ output_recommendations # <<>>
    /\ encoded = << <<requirement_query_str>> >>
    /\ calls = [get_embeddings |-> 1, encode |-> 1, calculate_similarity |-> 1]
    /\ \A i \in 1..Len(products_df) : products_df[i].embedding = encode(products_df[i].combined_text)


\* a power label that has no keyword phrase: not in the table, or listed with none
Keywordless(label) ==
    label \notin DOMAIN POWER_KEYWORD_MAPPING \/ POWER_KEYWORD_MAPPING[label] = <<>>

\* a power list that is not empty and holds keywordless labels only
OnlyKeywordlessPower(req) ==
    /\ PowerLabels(req) # <<>>
    /\ \A k \in 1..Len(PowerLabels(req)) : Keywordless(PowerLabels(req)[k])

\* a connectivity request whose tokens are all listed with an empty synonym list
OnlyEmptySynonyms(req) ==
    /\ RequestedTokens(req) # {}
    /\ \A t \in RequestedTokens(req) :
          /\ t \in DOMAIN CONNECTIVITY_JSON_TO_PRODUCT_KEYWORDS
          /\ CONNECTIVITY_JSON_TO_PRODUCT_KEYWORDS[t] = <<>>

\* a connectivity request whose tokens are all absent from the synonym table
OnlyAbsentTokens(req) ==
    /\ RequestedTokens(req) # {}
    /\ \A t \in RequestedTokens(req) : t \notin DOMAIN CONNECTIVITY_JSON_TO_PRODUCT_KEYWORDS

\* the token itself occurs in the product's connectivity text or list
MatchesItself(token, row) ==
    \/ Contains(lower(row.Connectivity), token)
    \/ \E j \in 1..Len(row.Connectivity_List) : row.Connectivity_List[j] = token

\* row i of the product table is among the candidates
Kept(i) == \E k \in 1..Len(hard_constraint_results) : hard_constraint_results[k].index = i

\* C23: a non-empty power list of labels that have no keyword phrases (listed
\* with none, or not in the power table) gives every product the power outcome
\* false, so no product becomes a candidate and recommend returns the empty
\* list; a connectivity request of tokens listed with an empty synonym list
\* fails every product the same way; a token absent from the synonym table is
\* matched as itself against the product's connectivity.
C23_KeywordlessRequestsFail ==
    /\ OnlyKeywordlessPower(requirements_json) =>
          /\ \A i \in 1..Len(products_df) :
                LET r == check_constraints(products_df[i], requirements_json, hashseed)
                IN  r.details.power = "False" /\ ~r.passed
          /\ hard_constraint_results = <<>>
          /\ pc \in {"FILTERING", "DONE"}
          /\ (pc = "DONE" => output_recommendations = <<>>)
    /\ OnlyEmptySynonyms(requirements_json) =>
          /\ \A i \in 1..Len(products_df) :
                LET r == check_constraints(products_df[i], requirements_json, hashseed)
                IN  r.details.connectivity = "False" /\ ~r.passed
          /\ hard_constraint_results = <<>>
          /\ pc \in {"FILTERING", "DONE"}
          /\ (pc = "DONE" => output_recommendations = <<>>)
    /\ OnlyAbsentTokens(requirements_json) =>
          \A i \in 1..Len(products_df) :
              LET r == check_constraints(products_df[i], requirements_json, hashseed)
                  itself == \E t \in RequestedTokens(requirements_json) :
                                MatchesItself(t, products_df[i])
              IN  /\ r.details.connectivity = IF itself THEN "True" ELSE "False"
                  /\ (i < index /\ DOMAIN requirements_json = {"connectivity"}) =>
                        (Kept(i) <=> itself)

\* a request for the unlisted label "solar" over two products, one of them
\* described as a solar gateway that passes when no power is asked for: the
\* loop has seen every product and recommend has returned the empty list
C23_Witness ==
    /\ pc = "DONE"
    /\ requirements_json = ReqUnlisted
    /\ Len(products_df) >= 2
    /\ index > Len(products_df)
    /\ \E i \in 1..Len(products_df) :
          /\ Contains(lower(products_df[i].Description_And_Application), <<"s","o","l","a","r">>)
          /\ check_constraints(products_df[i], EmptyDict, hashseed).passed
    /\ hard_constraint_results = <<>>
    /\ output_recommendations = <<>>

====
